---- MODULE Spec2Model ----
(***************************************************************************)
(* Come Through (Obsidian flashcard plugin): the declaration parser, the   *)
(* range engine, the content extractor and the card resolver.              *)
(*                                                                         *)
(* A note is a sequence of blocks (heading, thematic break, fenced code    *)
(* block, paragraph).  Block i occupies BlockLen characters of the note's  *)
(* text: the block's own characters followed by one separating newline.    *)
(* A character is named by its offset, so a content string is the sequence *)
(* of the offsets of its characters.                                       *)
(***************************************************************************)
EXTENDS Integers, Sequences, FiniteSets, TLC

\* ------------------------------------------------------------------ bounds

\* Blocks per note.
MaxBlocks == 4
\* Characters per block, the separating newline included.
BlockLen == 3

\* ------------------------------------------------------------ YAML values

Absent == [t |-> "absent", s |-> "", n |-> 0]
Null == [t |-> "null", s |-> "", n |-> 0]
Str(s) == [t |-> "str", s |-> s, n |-> 0]
Num(n) == [t |-> "num", s |-> "", n |-> n]

isString(v) == v.t = "str"
isNumber(v) == v.t = "num"

\* String.prototype.toLowerCase over the strings the model uses.
ToLowerCase(s) ==
    CASE s = "X" -> "x"
      [] s = "Y" -> "y"
      [] s = "D" -> "d"
      [] s = "Front" -> "front"
      [] s = "Back" -> "back"
      [] OTHER -> s

\* String.prototype.trim over the strings the model uses.
Trim(s) ==
    CASE s = " x" -> "x"
      [] s = " f" -> "f"
      [] s = " " -> ""
      [] OTHER -> s

\* ------------------------------------------------------------------ blocks

\* A YAML mapping as written: the keys the program looks at.  deckID is the key
\* the program itself adds to a mapping; lower-cased YAML text never has it.
NoObj == [side |-> Absent, id |-> Absent, name |-> Absent, level |-> Absent,
          delimiter |-> Absent, deck |-> Absent, deckID |-> Absent]

\* A heading line: "#"*level, then the marker token (mark@id) if any, then `name`.
Heading(level, mark, name) ==
    [kind |-> "heading", level |-> level, mark |-> mark, name |-> name,
     lang |-> "", yaml |-> "", obj |-> NoObj]

Hr == [kind |-> "thematicBreak", level |-> 0, mark |-> "", name |-> "",
       lang |-> "", yaml |-> "", obj |-> NoObj]

Para == [kind |-> "paragraph", level |-> 0, mark |-> "", name |-> "",
         lang |-> "", yaml |-> "", obj |-> NoObj]

\* A fenced block: its language tag, whether its body is well-formed YAML, and
\* the mapping the YAML text denotes (before lower-casing).
Code(lang, yaml, obj) ==
    [kind |-> "code", level |-> 0, mark |-> "", name |-> "",
     lang |-> lang, yaml |-> yaml, obj |-> obj]

Card(side, id) == Code("ct", "ok", [NoObj EXCEPT !.side = side, !.id = id])
Command(name, level) == Code("ct", "ok", [NoObj EXCEPT !.name = name, !.level = level])

\* ----------------------------------------------------------------- outline

TextLen(doc) == BlockLen * Len(doc)
BlockStart(i) == BlockLen * (i - 1)
BlockEnd(i) == BlockLen * (i - 1) + (BlockLen - 1)

\* HeadingCache.heading: the heading's text without the leading #'s.
HeadingText(b) == IF b.mark = "" THEN b.name ELSE b.mark \o "@" \o b.name

NullItem == [kind |-> "null", level |-> 0, start |-> 0, end |-> 0, text |-> ""]

HeadingCache(doc, i) ==
    [kind |-> "heading", level |-> doc[i].level, start |-> BlockStart(i),
     end |-> BlockEnd(i), text |-> HeadingText(doc[i])]

SectionCache(doc, i) ==
    [kind |-> doc[i].kind, level |-> 0, start |-> BlockStart(i),
     end |-> BlockEnd(i), text |-> ""]

RECURSIVE SelectIdx(_, _, _)
\* The indices i >= from of doc whose block kind is in `kinds`, ascending.
SelectIdx(doc, kinds, from) ==
    IF from > Len(doc) THEN <<>>
    ELSE (IF doc[from].kind \in kinds THEN <<from>> ELSE <<>>)
         \o SelectIdx(doc, kinds, from + 1)

\* CachedMetadata.headings
Headings(doc) ==
    LET idx == SelectIdx(doc, {"heading"}, 1)
    IN [k \in 1..Len(idx) |-> HeadingCache(doc, idx[k])]

\* CachedMetadata.sections
Sections(doc) == [i \in 1..Len(doc) |-> SectionCache(doc, i)]

isHeadingCache(item) == item.kind = "heading"
isCodeSection(section) == section.kind = "code"
isSectionType(item, type) == item.kind = type /\ item.kind \notin {"heading", "loc", "null"}
SECTION_TYPE_HEADING == "heading"
SECTION_TYPE_CODE == "code"
SECTION_TYPE_THEMATICBREAK == "thematicBreak"

\* ------------------------------------------------------ Array.prototype.sort

\* The comparators the program passes to sort().
Compare(cmp, ctx, a, b) ==
    CASE cmp = "start" -> a.start - b.start
      [] cmp = "likelihood" ->
            IF a = ctx.noteID THEN -1
            ELSE IF b = ctx.noteID THEN 1
            ELSE IF a \in ctx.hints THEN -1
            ELSE IF b \in ctx.hints THEN 1
            ELSE 0

RECURSIVE RunLength(_, _, _, _, _)
\* The length of the run starting at arr[1] that continues through arr[idx - 1].
RunLength(arr, cmp, ctx, isDescending, idx) ==
    IF idx > Len(arr) THEN Len(arr)
    ELSE LET order == Compare(cmp, ctx, arr[idx], arr[idx - 1])
         IN IF (isDescending /\ order >= 0) \/ (~isDescending /\ order < 0)
            THEN idx - 1
            ELSE RunLength(arr, cmp, ctx, isDescending, idx + 1)

Reverse(arr) == [i \in 1..Len(arr) |-> arr[Len(arr) + 1 - i]]

RECURSIVE BinarySearch(_, _, _, _, _, _)
BinarySearch(arr, cmp, ctx, pivot, left, right) ==
    IF left >= right THEN left
    ELSE LET mid == left + ((right - left) \div 2)
         IN IF Compare(cmp, ctx, pivot, arr[mid]) < 0
            THEN BinarySearch(arr, cmp, ctx, pivot, left, mid)
            ELSE BinarySearch(arr, cmp, ctx, pivot, mid + 1, right)

RECURSIVE BinaryInsertionSort(_, _, _, _)
\* arr[1..start-1] is sorted; insert arr[start], arr[start+1], ... in turn.
BinaryInsertionSort(arr, cmp, ctx, start) ==
    IF start > Len(arr) THEN arr
    ELSE LET pivot == arr[start]
             left == BinarySearch(arr, cmp, ctx, pivot, 1, start)
             moved == SubSeq(arr, 1, left - 1) \o <<pivot>>
                      \o SubSeq(arr, left, start - 1)
                      \o SubSeq(arr, start + 1, Len(arr))
         IN BinaryInsertionSort(moved, cmp, ctx, start + 1)

\* Unsorted: the array as it was given.
ArraySortNone(arr, cmp, ctx) == arr

\* Array.prototype.sort as the host's engine runs it on an array shorter than
\* its minimum merge length: find the leading run (reversing a descending one),
\* then insert the other elements by binary search.
ArraySort(arr, cmp, ctx) ==
    IF Len(arr) < 2 THEN arr
    ELSE LET isDescending == Compare(cmp, ctx, arr[2], arr[1]) < 0
             run == RunLength(arr, cmp, ctx, isDescending, 3)
             made == IF isDescending
                     THEN Reverse(SubSeq(arr, 1, run)) \o SubSeq(arr, run + 1, Len(arr))
                     ELSE arr
         IN BinaryInsertionSort(made, cmp, ctx, run + 1)

\* ------------------------------------------------------------ range engine

\* The endPredicate of headingRangeForSection, and two more a caller may pass.
EndPredicate(pred, start, endCandidate) ==
    CASE pred = "headingLevel" ->
            IF isHeadingCache(start) /\ isHeadingCache(endCandidate)
            THEN start.level >= endCandidate.level
            ELSE FALSE
      [] pred = "always" -> TRUE
      [] pred = "never" -> FALSE

\* rangeForSection: the range, the ordered delimiters, and the indices in them
\* of the start delimiter (0: none) and of the end delimiter (0: none).
rangeForSection(section, possibleEndDelimiters, pred) ==
    LET \* the delimiter the section belongs to: the last one not after it
        StartIndex(orderedDelimiters) ==
            LET notAfter == {j \in 1..Len(orderedDelimiters) :
                                ~(orderedDelimiters[j].start > section.end)}
            IN IF notAfter = {} THEN 0
               ELSE CHOOSE j \in notAfter : \A k \in notAfter : k <= j
        \* the first delimiter after it the end predicate accepts
        EndIndex(orderedDelimiters, delimiterCounter) ==
            LET ends == IF delimiterCounter = 0 THEN {}
                        ELSE {k \in (delimiterCounter + 1)..Len(orderedDelimiters) :
                                EndPredicate(pred, orderedDelimiters[delimiterCounter],
                                             orderedDelimiters[k])}
            IN IF ends = {} THEN 0 ELSE CHOOSE k \in ends : \A m \in ends : k <= m
        Range(orderedDelimiters, delimiterCounter, endIndex) ==
            [start |-> IF delimiterCounter = 0 THEN NullItem
                       ELSE orderedDelimiters[delimiterCounter],
             end |-> IF endIndex = 0 THEN NullItem ELSE orderedDelimiters[endIndex],
             delimiters |-> orderedDelimiters,
             startIndex |-> delimiterCounter,
             endIndex |-> endIndex]
        FromStart(orderedDelimiters, delimiterCounter) ==
            Range(orderedDelimiters, delimiterCounter,
                  EndIndex(orderedDelimiters, delimiterCounter))
        InOrder(orderedDelimiters) ==
            FromStart(orderedDelimiters, StartIndex(orderedDelimiters))
    IN InOrder(ArraySort(possibleEndDelimiters, "start", <<>>))

\* The delimiters headingRangeForSection offers: every heading, then every
\* thematic break.
relevantSections(doc) ==
    LET breaks == SelectIdx(doc, {"thematicBreak"}, 1)
    IN Headings(doc) \o [k \in 1..Len(breaks) |-> SectionCache(doc, breaks[k])]

headingRangeForSection(section, doc) ==
    rangeForSection(section, relevantSections(doc), "headingLevel")

\* The in-between delimiters rangeForSection hands to inBetweenCallback, as
\* indices into `delimiters`, in call order.
InBetween(r) ==
    IF r.startIndex = 0 THEN <<>>
    ELSE LET last == IF r.endIndex = 0 THEN Len(r.delimiters) ELSE r.endIndex - 1
         IN [k \in 1..(last - r.startIndex) |-> r.startIndex + k]

\* ------------------------------------------------------------------ FullID

IDScope_UNIQUE == "UNIQUE"
IDScope_NOTE == "NOTE"

\* new FullID(noteID, cardID, isFrontSide ? "f" : "b")
FullID_create(noteID, cardID, isFrontSide) ==
    [noteID |-> Trim(noteID),
     cardID |-> ToLowerCase(Trim(cardID)),
     cardSide |-> IF isFrontSide THEN "f" ELSE "b"]

FullID_isFrontSide(id) == id.cardSide = "f" \/ id.cardSide = "front"
isNoteEqual(id, other) == id.noteID = other.noteID
isCardEqual(id, other) == id.cardID = other.cardID

\* FullID.isEqual(other, sideInsensitive = true)
isEqual(id, other) ==
    IF id.cardID = "" \/ other.cardID = "" THEN FALSE
    ELSE isNoteEqual(id, other) /\ isCardEqual(id, other)

FullID_toString(id) ==
    IF id.noteID # "" /\ id.cardID # "" /\ id.cardSide # ""
    THEN id.cardSide \o "@" \o id.cardID \o "@" \o id.noteID
    ELSE IF id.noteID # "" /\ id.cardID # ""
    THEN id.cardID \o "@" \o id.noteID
    ELSE id.noteID

\* -------------------------------------------------------------- Declaration

supportedCodeBlockLanguages == {"comethrough", "ct"}

\* contentOfCodeBlock: whether the fence's language tag is a supported one.
contentOfCodeBlock(block) == block.lang \in supportedCodeBlockLanguages

LowerVal(v) == IF isString(v) THEN Str(ToLowerCase(v.s)) ELSE v

NoParsed == [side |-> Absent, id |-> Absent, name |-> Absent, level |-> Absent,
             delimiter |-> Absent, deckID |-> Absent]

\* tryParseYaml: the YAML text is lower-cased, parsed, and its "deck" key is
\* renamed to deckID.  ok: an object came out; error: onParseError was called.
tryParseYaml(block) ==
    IF block.yaml = "bad" THEN [ok |-> FALSE, isObject |-> FALSE, error |-> TRUE, obj |-> NoParsed]
    ELSE IF block.yaml = "empty" THEN [ok |-> FALSE, isObject |-> FALSE, error |-> FALSE, obj |-> NoParsed]
    ELSE IF block.yaml = "scalar" THEN [ok |-> TRUE, isObject |-> FALSE, error |-> FALSE, obj |-> NoParsed]
    ELSE [ok |-> TRUE, isObject |-> TRUE, error |-> FALSE,
          obj |-> [side |-> LowerVal(block.obj.side),
                   id |-> LowerVal(block.obj.id),
                   name |-> LowerVal(block.obj.name),
                   level |-> LowerVal(block.obj.level),
                   delimiter |-> LowerVal(block.obj.delimiter),
                   deckID |-> LowerVal(block.obj.deck)]]

\* ---------------------------------------------------------- CardDeclaration

frontSideValues == {"f", "front"}
backSideValues == {"b", "back"}

NoDeclaration ==
    [id |-> "", side |-> "", idScope |-> "", deckID |-> Null, isAutoGenerated |-> FALSE]

\* new CardDeclaration(id, side, idScope, deckID, isAutoGenerated)
CardDeclaration(id, side, idScope, deckID, isAutoGenerated) ==
    [id |-> id, side |-> ToLowerCase(Trim(side)), idScope |-> idScope,
     deckID |-> deckID, isAutoGenerated |-> isAutoGenerated]

conformsToDefaultable(parsed) == parsed.isObject /\ parsed.obj.side.t # "absent"
conformsToDeclarable(parsed) == conformsToDefaultable(parsed) /\ isString(parsed.obj.id)

isSideValid(side) == ToLowerCase(Trim(side)) \in (frontSideValues \cup backSideValues)

\* parseCodeBlock.  found: a CardDeclaration is returned; incomplete: the
\* incomplete callback was invoked; parseError: onParseError was invoked;
\* thrown: the call threw (side.trim() on a side that is not a string).
parseCodeBlock(block) ==
    LET parsed == tryParseYaml(block)
        none == [found |-> FALSE, declaration |-> NoDeclaration, incomplete |-> FALSE,
                 parseError |-> FALSE, thrown |-> ""]
    IN IF ~contentOfCodeBlock(block) THEN none
       ELSE IF ~parsed.ok THEN [none EXCEPT !.parseError = parsed.error]
       ELSE IF conformsToDeclarable(parsed)
       THEN IF ~isString(parsed.obj.side)
            THEN [none EXCEPT !.thrown = "TypeError"]
            ELSE [none EXCEPT !.found = TRUE,
                    !.declaration = CardDeclaration(parsed.obj.id.s, parsed.obj.side.s,
                        IDScope_UNIQUE,
                        IF parsed.obj.deckID.t = "absent" THEN Null ELSE parsed.obj.deckID,
                        FALSE)]
       ELSE IF conformsToDefaultable(parsed) THEN [none EXCEPT !.incomplete = TRUE]
       ELSE none

\* fullIDFromDeclaration: throws when the declaration's side is not a valid one.
fullIDFromDeclaration(declaration, noteID) ==
    IF ~isSideValid(declaration.side)
    THEN [thrown |-> "Error: Side is not valid", id |-> FullID_create(noteID, "", FALSE)]
    ELSE [thrown |-> "",
          id |-> FullID_create(noteID, declaration.id, declaration.side \in frontSideValues)]

\* The pattern without its back alternatives: /(front|f)@([^\s]+)/i.
FULL_ID_REGEX_matchesFront(block) ==
    block.mark # "" /\ ToLowerCase(block.mark) \in {"front", "f"}

\* FULL_ID_REGEX = /(front|f|back|b)@([^\s]+)/i applied to a heading.
FULL_ID_REGEX_matches(block) ==
    block.mark # "" /\ ToLowerCase(block.mark) \in {"front", "f", "back", "b"}

\* findFullIDInText
findFullIDInText(block, noteID) ==
    FullID_create(noteID, block.name, ToLowerCase(block.mark) \in {"front", "f"})

\* -------------------------------------------------------- CommandDeclaration

AlternateHeadingsCommandNames == {"alternate headings", "alt headings", "ah"}
HeadingAndDelimiterCommandNames == {"heading and delimiter", "hd"}
HeadingIsFrontCommandNames == {"heading is front", "hf"}

\* HeadingsCommandableAssistant.conforms: the command has a level key.
HeadingsCommandable_conforms(obj) == obj.level.t # "absent"

\* HeadingsCommandableAssistant.isLevelValid
isLevelValid(obj) ==
    IF isNumber(obj.level) THEN obj.level.n >= 1
    ELSE obj.level.t \in {"absent", "null"}

\* The level the command carries after isLevelValid has set its default.
LevelOf(obj) == IF isNumber(obj.level) THEN obj.level.n ELSE 1

\* HeadingAndDelimiterAssistant.isDelimiterValid
isDelimiterValid(obj) ==
    IF obj.delimiter.t # "absent"
    THEN isString(obj.delimiter) /\ obj.delimiter.s \in {"hr", "horizontal rule"}
    ELSE TRUE

NoParser == [kind |-> "", level |-> 0, deckID |-> Null]

\* CommandDeclarationAssistant.createParser.  found: a parser is returned;
\* invalid: onInvalidType was invoked; parseError: onParseError was invoked.
createParser(block) ==
    LET parsed == tryParseYaml(block)
        obj == parsed.obj
        none == [found |-> FALSE, parser |-> NoParser, invalid |-> FALSE, parseError |-> FALSE]
        kind == IF ~isString(obj.name) THEN ""
                ELSE IF obj.name.s \in AlternateHeadingsCommandNames THEN "ah"
                ELSE IF obj.name.s \in HeadingAndDelimiterCommandNames THEN "hd"
                ELSE IF obj.name.s \in HeadingIsFrontCommandNames THEN "hf"
                ELSE ""
        valid == /\ kind # ""
                 /\ HeadingsCommandable_conforms(obj)
                 /\ isLevelValid(obj)
                 /\ (kind = "hd" => isDelimiterValid(obj))
    IN IF ~contentOfCodeBlock(block) THEN none
       ELSE IF ~parsed.ok THEN [none EXCEPT !.parseError = parsed.error]
       ELSE IF ~(parsed.isObject /\ isString(obj.name)) THEN none
       ELSE IF valid
       THEN [none EXCEPT !.found = TRUE,
                !.parser = [kind |-> kind, level |-> LevelOf(obj),
                            deckID |-> IF obj.deckID.t = "absent" THEN Null ELSE obj.deckID]]
       ELSE [none EXCEPT !.invalid = TRUE]

\* ---------------------------------------------------- CommandDeclarationParser

\* A parser's state: the declarations generated so far, the level of the
\* heading that began the pending front side (0: unset), and the error thrown.
NewParserState == [generated |-> <<>>, lastFrontHeadingLevel |-> 0, thrown |-> ""]

\* generateDeclaration
generateDeclaration(parser, st, id, isFront, startDelimiter, endDelimiter) ==
    [st EXCEPT !.generated = Append(@,
        [declaration |-> CardDeclaration(id, IF isFront THEN "front" ELSE "back",
                                         IDScope_NOTE, parser.deckID, TRUE),
         range |-> [start |-> startDelimiter, end |-> endDelimiter]])]

\* isOnSpecifiedLevel
isOnSpecifiedLevel(parser, parentHeadingLevel, section) ==
    section.level = parentHeadingLevel + parser.level

RECURSIVE findNextHeadingFrom(_, _, _)
findNextHeadingFrom(headingLevel, nextIndex, delimiters) ==
    IF nextIndex > Len(delimiters) THEN NullItem
    ELSE IF isHeadingCache(delimiters[nextIndex]) /\ headingLevel >= delimiters[nextIndex].level
    THEN delimiters[nextIndex]
    ELSE findNextHeadingFrom(headingLevel, nextIndex + 1, delimiters)

\* The scan of findNextHeading that stops at the first heading of any level.
findNextHeadingAny(headingLevel, index, delimiters) ==
    LET after == {k \in (index + 1)..Len(delimiters) : isHeadingCache(delimiters[k])}
    IN IF after = {} THEN NullItem
       ELSE delimiters[CHOOSE k \in after : \A m \in after : k <= m]

\* findNextHeading
findNextHeading(headingLevel, index, delimiters) ==
    findNextHeadingFrom(headingLevel, index + 1, delimiters)

\* AlternateHeadingsParser.parse that makes every matching heading a front.
AlternateHeadings_parseAllFront(parser, st, parentHeadingLevel, index, delimiters) ==
    LET inBetweenDelimiter == delimiters[index]
    IN IF ~isHeadingCache(inBetweenDelimiter) THEN st
       ELSE IF ~isOnSpecifiedLevel(parser, parentHeadingLevel, inBetweenDelimiter) THEN st
       ELSE generateDeclaration(parser, st, inBetweenDelimiter.text, TRUE, inBetweenDelimiter,
                findNextHeading(inBetweenDelimiter.level, index, delimiters))

\* AlternateHeadingsParser.parse
AlternateHeadings_parse(parser, st, parentHeadingLevel, index, delimiters) ==
    LET inBetweenDelimiter == delimiters[index]
        isFront == Len(st.generated) % 2 = 0
    IN IF ~isHeadingCache(inBetweenDelimiter) THEN st
       ELSE IF ~isOnSpecifiedLevel(parser, parentHeadingLevel, inBetweenDelimiter) THEN st
       ELSE generateDeclaration(parser, st,
                IF isFront THEN inBetweenDelimiter.text
                ELSE st.generated[Len(st.generated)].declaration.id,
                isFront, inBetweenDelimiter,
                findNextHeading(inBetweenDelimiter.level, index, delimiters))

Loc(offset) == [kind |-> "loc", level |-> 0, start |-> offset, end |-> offset, text |-> ""]

\* HeadingIsFrontParser.parse whose back side starts where the heading starts.
HeadingIsFront_parseBackAtHeading(parser, st, parentHeadingLevel, index, delimiters) ==
    LET inBetweenDelimiter == delimiters[index]
        id == inBetweenDelimiter.text
        front == generateDeclaration(parser, st, id, TRUE,
                    Loc(inBetweenDelimiter.start), Loc(inBetweenDelimiter.end))
    IN IF ~isHeadingCache(inBetweenDelimiter) THEN st
       ELSE IF ~isOnSpecifiedLevel(parser, parentHeadingLevel, inBetweenDelimiter) THEN st
       ELSE generateDeclaration(parser, front, id, FALSE, Loc(inBetweenDelimiter.start),
                findNextHeading(inBetweenDelimiter.level, index, delimiters))

\* HeadingIsFrontParser.parse
HeadingIsFront_parse(parser, st, parentHeadingLevel, index, delimiters) ==
    LET inBetweenDelimiter == delimiters[index]
        id == inBetweenDelimiter.text
        front == generateDeclaration(parser, st, id, TRUE,
                    Loc(inBetweenDelimiter.start), Loc(inBetweenDelimiter.end))
    IN IF ~isHeadingCache(inBetweenDelimiter) THEN st
       ELSE IF ~isOnSpecifiedLevel(parser, parentHeadingLevel, inBetweenDelimiter) THEN st
       ELSE generateDeclaration(parser, front, id, FALSE, Loc(inBetweenDelimiter.end),
                findNextHeading(inBetweenDelimiter.level, index, delimiters))

RECURSIVE HeadingAndDelimiter_nextBreak(_, _, _)
\* The loop that ends every side, front or back, at the next thematic break.
HeadingAndDelimiter_nextBreak(lastFrontHeadingLevel, nextIndex, delimiters) ==
    IF nextIndex > Len(delimiters) THEN NullItem
    ELSE IF isSectionType(delimiters[nextIndex], SECTION_TYPE_THEMATICBREAK)
    THEN delimiters[nextIndex]
    ELSE HeadingAndDelimiter_nextBreak(lastFrontHeadingLevel, nextIndex + 1, delimiters)

RECURSIVE HeadingAndDelimiter_nextDelimiter(_, _, _)
\* The loop of HeadingAndDelimiterParser.parse that finds the side's end.
HeadingAndDelimiter_nextDelimiter(lastFrontHeadingLevel, nextIndex, delimiters) ==
    IF nextIndex > Len(delimiters) THEN NullItem
    ELSE LET maybeNextDelimiter == delimiters[nextIndex]
         IN IF lastFrontHeadingLevel = 0
               /\ isSectionType(maybeNextDelimiter, SECTION_TYPE_THEMATICBREAK)
            THEN maybeNextDelimiter
            ELSE IF lastFrontHeadingLevel # 0 /\ isHeadingCache(maybeNextDelimiter)
                    /\ lastFrontHeadingLevel >= maybeNextDelimiter.level
            THEN maybeNextDelimiter
            ELSE HeadingAndDelimiter_nextDelimiter(lastFrontHeadingLevel, nextIndex + 1, delimiters)

\* HeadingAndDelimiterParser.parse
HeadingAndDelimiter_parse(parser, st, parentHeadingLevel, index, delimiters) ==
    LET inBetweenDelimiter == delimiters[index]
        isDelimiterHeading == isHeadingCache(inBetweenDelimiter)
        isBreak == isSectionType(inBetweenDelimiter, SECTION_TYPE_THEMATICBREAK)
        nextDelimiter == HeadingAndDelimiter_nextDelimiter(st.lastFrontHeadingLevel,
                                                           index + 1, delimiters)
    IN IF isDelimiterHeading /\ ~isOnSpecifiedLevel(parser, parentHeadingLevel, inBetweenDelimiter)
       THEN st
       ELSE IF ~isDelimiterHeading /\ ~isBreak THEN st
       ELSE IF ~isDelimiterHeading /\ Len(st.generated) = 0
       THEN [st EXCEPT !.thrown = "Error: Expected at least one generated declaration."]
       ELSE LET id == IF isDelimiterHeading THEN inBetweenDelimiter.text
                      ELSE st.generated[Len(st.generated)].declaration.id
                made == generateDeclaration(parser, st, id, st.lastFrontHeadingLevel = 0,
                                            inBetweenDelimiter, nextDelimiter)
            IN [made EXCEPT !.lastFrontHeadingLevel =
                    IF isDelimiterHeading THEN inBetweenDelimiter.level ELSE 0]

\* parser.parse, by the parser's class.
Parser_parse(parser, st, parentHeadingLevel, index, delimiters) ==
    CASE parser.kind = "ah" -> AlternateHeadings_parse(parser, st, parentHeadingLevel, index, delimiters)
      [] parser.kind = "hd" -> HeadingAndDelimiter_parse(parser, st, parentHeadingLevel, index, delimiters)
      [] parser.kind = "hf" -> HeadingIsFront_parse(parser, st, parentHeadingLevel, index, delimiters)

RECURSIVE ParseInBetween(_, _, _, _, _)
\* rangeForSection's calls of inBetweenCallback, in order, until one throws.
ParseInBetween(parser, st, parentHeadingLevel, indices, delimiters) ==
    IF indices = <<>> \/ st.thrown # "" THEN st
    ELSE ParseInBetween(parser,
            Parser_parse(parser, st, parentHeadingLevel, Head(indices), delimiters),
            parentHeadingLevel, Tail(indices), delimiters)

\* ---------------------------------------------------------- DeclarationParser

\* fileContent.slice(section.position.start.offset, section.position.end.offset)
BlockOf(doc, section) == doc[(section.start \div BlockLen) + 1]

\* getDeclarationFromSection
getDeclarationFromSection(section, doc) ==
    IF ~isCodeSection(section)
    THEN [found |-> FALSE, declaration |-> NoDeclaration, incomplete |-> FALSE,
          parseError |-> FALSE, thrown |-> ""]
    ELSE parseCodeBlock(BlockOf(doc, section))

\* getAutoDeclarationsFromSection: the generated declarations, the diagnostics
\* and the error thrown by the parser, if any.
getAutoDeclarationsFromSection(section, doc) ==
    LET none == [generated |-> <<>>, invalid |-> FALSE, parseError |-> FALSE, thrown |-> ""]
        \* parser.parse on every in-between delimiter of the heading's range
        Parsed(parser, r) ==
            IF isHeadingCache(r.start)
            THEN ParseInBetween(parser, NewParserState, r.start.level, InBetween(r),
                                r.delimiters)
            ELSE NewParserState
        Generated(st) == [none EXCEPT !.generated = st.generated, !.thrown = st.thrown]
        WithParser(created) ==
            IF ~created.found
            THEN [none EXCEPT !.invalid = created.invalid,
                              !.parseError = created.parseError]
            ELSE Generated(Parsed(created.parser, headingRangeForSection(section, doc)))
    IN IF ~isCodeSection(section) THEN none
       ELSE WithParser(createParser(BlockOf(doc, section)))

supportedFrontmatterKeys == {"comethrough", "ct", "come through"}

\* The note's frontmatter, a block of kind "yaml" at the top of the note, holds
\* one mapping under a supported key.
hasFrontmatter(doc) == Len(doc) >= 1 /\ doc[1].kind = "yaml"

\* getDeclarationFromFrontmatter: the mapping as written (not lower-cased).
getDeclarationFromFrontmatter(doc) ==
    LET obj == doc[1].obj
    IN [found |-> obj.side.t # "absent" /\ isString(obj.id),
        thrown |-> IF obj.side.t # "absent" /\ isString(obj.id) /\ ~isString(obj.side)
                   THEN "TypeError" ELSE "",
        declaration |-> [id |-> obj.id.s, side |-> obj.side.s, idScope |-> "",
                         deckID |-> Null, isAutoGenerated |-> FALSE]]

RECURSIVE SectionIDs(_, _, _)
\* getAllIDsFromMetadata, the loop over the sections from section i on: the ids
\* in discovery order, and what was reported on the way.
SectionIDs(noteID, doc, i) ==
    LET failed(e) == [thrown |-> e, ids |-> <<>>, incomplete |-> <<>>,
                      invalidCommands |-> <<>>, invalidYaml |-> <<>>]
        Merged(explicitDecl, explicitID, auto, rest) ==
            IF explicitDecl.thrown # "" THEN failed(explicitDecl.thrown)
            ELSE IF explicitDecl.found /\ explicitID.thrown # "" THEN failed(explicitID.thrown)
            ELSE IF auto.thrown # "" THEN failed(auto.thrown)
            ELSE IF rest.thrown # "" THEN failed(rest.thrown)
            ELSE [thrown |-> "",
                  ids |-> (IF explicitDecl.found THEN <<explicitID.id>> ELSE <<>>)
                          \o [k \in 1..Len(auto.generated) |->
                                fullIDFromDeclaration(auto.generated[k].declaration, noteID).id]
                          \o rest.ids,
                  incomplete |-> (IF explicitDecl.incomplete THEN <<i>> ELSE <<>>)
                                 \o rest.incomplete,
                  invalidCommands |-> (IF auto.invalid THEN <<i>> ELSE <<>>)
                                      \o rest.invalidCommands,
                  invalidYaml |-> (IF explicitDecl.parseError THEN <<i>> ELSE <<>>)
                                  \o (IF auto.parseError THEN <<i>> ELSE <<>>)
                                  \o rest.invalidYaml]
        WithExplicit(section, explicitDecl) ==
            Merged(explicitDecl,
                   fullIDFromDeclaration(explicitDecl.declaration, noteID),
                   getAutoDeclarationsFromSection(section, doc),
                   SectionIDs(noteID, doc, i + 1))
    IN IF i > Len(doc) THEN failed("")
       ELSE WithExplicit(Sections(doc)[i], getDeclarationFromSection(Sections(doc)[i], doc))

RECURSIVE checkExistance(_, _, _, _)
\* The fold of checkExistance over the discovered ids: those kept and those
\* pushed to multipleDefinedIDs.
checkExistance(found, parsedIDs, ids, multipleDefinedIDs) ==
    IF found = <<>> THEN [ids |-> ids, multipleDefinedIDs |-> multipleDefinedIDs]
    ELSE LET id == Head(found)
             str == FullID_toString(id)
         IN IF str \in parsedIDs
            THEN checkExistance(Tail(found), parsedIDs, ids, Append(multipleDefinedIDs, id))
            ELSE checkExistance(Tail(found), parsedIDs \cup {str}, Append(ids, id),
                                multipleDefinedIDs)

\* getAllIDsFromMetadata (no filter)
getAllIDsFromMetadata(noteID, doc) ==
    LET failed(e) == [thrown |-> e, ids |-> <<>>, multipleDefinedIDs |-> <<>>,
                      incomplete |-> <<>>, invalidCommands |-> <<>>, invalidYaml |-> <<>>]
        FromHeadings(marked) ==
            [k \in 1..Len(marked) |-> findFullIDInText(BlockOf(doc, marked[k]), noteID)]
        Result(fromSections, checked) ==
            [thrown |-> "", ids |-> checked.ids,
             multipleDefinedIDs |-> checked.multipleDefinedIDs,
             incomplete |-> fromSections.incomplete,
             invalidCommands |-> fromSections.invalidCommands,
             invalidYaml |-> fromSections.invalidYaml]
        WithSections(fromFrontmatter, fromSections) ==
            IF fromSections.thrown # "" THEN failed(fromSections.thrown)
            ELSE Result(fromSections,
                    checkExistance(
                        fromFrontmatter
                        \o FromHeadings(SelectSeq(Headings(doc),
                              LAMBDA h : FULL_ID_REGEX_matches(BlockOf(doc, h))))
                        \o fromSections.ids,
                        {}, <<>>, <<>>))
        WithFrontmatter(fm, fmID) ==
            IF hasFrontmatter(doc) /\ fm.thrown # "" THEN failed(fm.thrown)
            ELSE IF hasFrontmatter(doc) /\ fm.found /\ fmID.thrown # "" THEN failed(fmID.thrown)
            ELSE WithSections(IF hasFrontmatter(doc) /\ fm.found THEN <<fmID.id>> ELSE <<>>,
                              SectionIDs(noteID, doc, 1))
        Declared(fm) == WithFrontmatter(fm, fullIDFromDeclaration(fm.declaration, noteID))
    IN Declared(getDeclarationFromFrontmatter(doc))

\* fileCacheOrThrow, then the parse: getAllIDsInFile
getAllIDsInFile(noteID, doc, hasCache) ==
    IF ~hasCache
    THEN [thrown |-> "FileParserError", ids |-> <<>>, multipleDefinedIDs |-> <<>>,
          incomplete |-> <<>>, invalidCommands |-> <<>>, invalidYaml |-> <<>>]
    ELSE getAllIDsFromMetadata(noteID, doc)

\* ------------------------------------------------------------- ContentParser

RangeOf(r) == [start |-> r.start, end |-> r.end]

\* The end of a heading-declared side: the next heading of the same or a lower level.
NextHeadingAtOrAbove(headings, headingIndex) ==
    LET after == {k \in (headingIndex + 1)..Len(headings) :
                    headings[k].level <= headings[headingIndex].level}
    IN IF after = {} THEN NullItem
       ELSE headings[CHOOSE k \in after : \A m \in after : k <= m]

\* findAllContentInfosInFile, "Headings" region.
HeadingInfos(noteID, doc) ==
    LET headings == Headings(doc)
        marked == SelectSeq([k \in 1..Len(headings) |-> k],
                    LAMBDA k : FULL_ID_REGEX_matches(BlockOf(doc, headings[k])))
    IN [j \in 1..Len(marked) |->
          [id |-> findFullIDInText(BlockOf(doc, headings[marked[j]]), noteID),
           scope |-> IDScope_NOTE,
           section |-> [kind |-> SECTION_TYPE_HEADING, level |-> 0,
                        start |-> headings[marked[j]].start,
                        end |-> headings[marked[j]].end, text |-> ""],
           range |-> [start |-> headings[marked[j]],
                      end |-> NextHeadingAtOrAbove(headings, marked[j])]]]

RECURSIVE ExplicitInfos(_, _, _)
\* findAllContentInfosInFile, first loop over the sections, from section i on.
ExplicitInfos(noteID, doc, i) ==
    LET Found(section, got, id, rest) ==
            IF got.thrown # "" THEN [thrown |-> got.thrown, infos |-> <<>>]
            ELSE IF ~got.found THEN rest
            ELSE IF id.thrown # "" THEN [thrown |-> id.thrown, infos |-> <<>>]
            ELSE [thrown |-> rest.thrown,
                  infos |-> <<[id |-> id.id, scope |-> got.declaration.idScope,
                               section |-> section,
                               range |-> RangeOf(headingRangeForSection(section, doc))]>>
                            \o rest.infos]
        WithDeclaration(section, got) ==
            Found(section, got, fullIDFromDeclaration(got.declaration, noteID),
                  ExplicitInfos(noteID, doc, i + 1))
    IN IF i > Len(doc) THEN [thrown |-> "", infos |-> <<>>]
       ELSE WithDeclaration(Sections(doc)[i], getDeclarationFromSection(Sections(doc)[i], doc))

RECURSIVE AutoInfos(_, _, _)
\* findAllContentInfosInFile, second loop over the sections, from section i on.
AutoInfos(noteID, doc, i) ==
    LET Found(section, got, rest) ==
            IF got.thrown # "" THEN [thrown |-> got.thrown, infos |-> <<>>]
            ELSE [thrown |-> rest.thrown,
                  infos |-> [k \in 1..Len(got.generated) |->
                                [id |-> fullIDFromDeclaration(got.generated[k].declaration, noteID).id,
                                 scope |-> got.generated[k].declaration.idScope,
                                 section |-> section,
                                 range |-> got.generated[k].range]]
                            \o rest.infos]
    IN IF i > Len(doc) THEN [thrown |-> "", infos |-> <<>>]
       ELSE Found(Sections(doc)[i], getAutoDeclarationsFromSection(Sections(doc)[i], doc),
                  AutoInfos(noteID, doc, i + 1))

\* findAllContentInfosInFile
findAllContentInfosInFile(noteID, doc) ==
    LET Found(explicit, auto) ==
            IF explicit.thrown # "" THEN [thrown |-> explicit.thrown, infos |-> <<>>]
            ELSE IF auto.thrown # "" THEN [thrown |-> auto.thrown, infos |-> <<>>]
            ELSE [thrown |-> "",
                  infos |-> HeadingInfos(noteID, doc) \o explicit.infos \o auto.infos]
    IN Found(ExplicitInfos(noteID, doc, 1), AutoInfos(noteID, doc, 1))

\* fileContent.slice(from, to): the characters at offsets from .. to - 1.
Slice(from, to, length) ==
    LET last == IF to > length THEN length ELSE to
    IN IF from >= last THEN <<>> ELSE [k \in 1..(last - from) |-> from + k - 1]

RECURSIVE JoinGapsFromStart(_, _, _, _)
\* The loop of subStringExcludingRanges that resumes at each range's start.
JoinGapsFromStart(sorted, i, startIndex, length) ==
    IF i > Len(sorted) THEN Slice(startIndex, length, length)
    ELSE Slice(startIndex, sorted[i].start, length)
         \o JoinGapsFromStart(sorted, i + 1, sorted[i].start, length)

RECURSIVE JoinGaps(_, _, _, _)
\* The loop of subStringExcludingRanges over the sorted ranges, from range i on.
JoinGaps(sorted, i, startIndex, length) ==
    IF i > Len(sorted) THEN Slice(startIndex, length, length)
    ELSE Slice(startIndex, sorted[i].start, length)
         \o JoinGaps(sorted, i + 1, sorted[i].start + (sorted[i].end - sorted[i].start), length)

\* subStringExcludingRanges
subStringExcludingRanges(length, excludeRanges) ==
    IF Len(excludeRanges) = 0 THEN <<>>
    ELSE JoinGaps(ArraySort(excludeRanges, "start", <<>>), 1, 0, length)

DefaultOptions == [hideCardSectionMarker |-> FALSE, hideDeclarationBlock |-> TRUE]

\* getContentFromInfo, "ranges within the content" loop without the guard
\* that the section starts after the start delimiter.
NestedCodeRangesAll(info, allInfos, options, startDelimiterEndOffset, endOffset) ==
    LET picked == SelectSeq(allInfos, LAMBDA other :
            /\ other.section.kind = SECTION_TYPE_CODE
            /\ other.section.start < endOffset
            /\ (options.hideDeclarationBlock \/ info.section.start # other.section.start))
    IN [k \in 1..Len(picked) |-> [start |-> picked[k].section.start, end |-> picked[k].section.end]]

\* getContentFromInfo, "ranges within the content" loop that excludes nothing.
NestedCodeRangesNone(info, allInfos, options, startDelimiterEndOffset, endOffset) == <<>>

\* getContentFromInfo, the loop that excludes the code sections of the sides
\* declared between the start delimiter and the end of the content.
NestedCodeRanges(info, allInfos, options, startDelimiterEndOffset, endOffset) ==
    LET picked == SelectSeq(allInfos, LAMBDA other :
            /\ other.section.kind = SECTION_TYPE_CODE
            /\ other.section.start > startDelimiterEndOffset
            /\ other.section.start < endOffset
            /\ (options.hideDeclarationBlock \/ info.section.start # other.section.start))
    IN [k \in 1..Len(picked) |-> [start |-> picked[k].section.start, end |-> picked[k].section.end]]

\* getContentFromInfo: the ranges to exclude, in the order they are pushed.
rangesToExclude(doc, info, allInfos, options) ==
    LET removeHeading == options.hideCardSectionMarker
        hideDeclarationBlock == options.hideDeclarationBlock
        startDelimiterStartOffset == IF info.range.start.kind = "null" THEN 0 ELSE info.range.start.start
        startDelimiterEndOffset == IF info.range.start.kind = "null" THEN 0 ELSE info.range.start.end
        endOffset == IF info.range.end.kind = "null" THEN TextLen(doc) ELSE info.range.end.start
        before ==
            IF hideDeclarationBlock /\ info.section.kind = SECTION_TYPE_HEADING
            THEN <<[start |-> 0, end |-> startDelimiterStartOffset]>>
                 \o (IF FULL_ID_REGEX_matches(BlockOf(doc, info.range.start))
                     THEN <<[start |-> startDelimiterStartOffset + 1,
                             end |-> startDelimiterStartOffset + 1 + 1]>>
                     ELSE <<>>)
            ELSE <<[start |-> 0,
                    end |-> IF removeHeading THEN startDelimiterEndOffset
                            ELSE startDelimiterStartOffset]>>
    IN before
       \o NestedCodeRanges(info, allInfos, options, startDelimiterEndOffset, endOffset)
       \o <<[start |-> endOffset, end |-> TextLen(doc)]>>

\* getContentFromInfo
getContentFromInfo(doc, info, allInfos, options) ==
    subStringExcludingRanges(TextLen(doc), rangesToExclude(doc, info, allInfos, options))

\* ------------------------------------------------------- ContentParser: cards

NoID == [noteID |-> "", cardID |-> "", cardSide |-> ""]

\* A MaybeParsedCard.  isNull: no card object (null, or no property of the
\* parse result).  frontScope and backScope record the scope of the declaration
\* each side was read from; the program keeps no such field.
NullCard ==
    [isNull |-> TRUE, frontID |-> NoID, frontSet |-> FALSE, frontMarkdown |-> <<>>,
     backID |-> NoID, backSet |-> FALSE, backMarkdown |-> <<>>,
     frontScope |-> "", backScope |-> ""]

EmptyCard == [NullCard EXCEPT !.isNull = FALSE]

CardIDs == {"x", "y", "a", "b", "c", "d", "e", "f2", "g"}

\* const parseResult: ParseResult = {}
EmptyParseResult == [cardID \in CardIDs |-> NullCard]

\* isComplete looking at the front side only.
isCompleteFrontOnly(card) == ~card.isNull /\ card.frontSet

\* isComplete
isComplete(card) == ~card.isNull /\ card.frontSet /\ card.backSet

\* getCard's predicate.iterationFilter
iterationFilter(id, idContentInfo) ==
    IF idContentInfo.scope = IDScope_UNIQUE THEN isCardEqual(idContentInfo.id, id)
    ELSE isEqual(idContentInfo.id, id)

\* getCard's predicate.isDone
isDone(id, idContentInfo, maybeParsedCard) ==
    IF ~isComplete(maybeParsedCard) THEN FALSE
    ELSE IF idContentInfo.scope = IDScope_UNIQUE THEN isCardEqual(maybeParsedCard.frontID, id)
    ELSE isEqual(maybeParsedCard.frontID, id)

\* A predicate: none (getAllCards) or getCard's, for the requested id.
NoPredicate == [has |-> FALSE, id |-> NoID]
PredicateFor(id) == [has |-> TRUE, id |-> id]

RECURSIVE PopulateFrom(_, _, _, _, _, _)
\* The loop of getContentFromInfos over the filtered infos: the parse result
\* after it, or the error thrown by cardIDOrThrow.
PopulateFrom(doc, filtered, contentInfos, result, predicate, options) ==
    LET \* card.frontMarkdown / card.backMarkdown and the side's id are set
        Assigned(idContentInfo, card, content) ==
            IF FullID_isFrontSide(idContentInfo.id)
            THEN [card EXCEPT !.frontMarkdown = content, !.frontSet = TRUE,
                              !.frontID = idContentInfo.id,
                              !.frontScope = idContentInfo.scope]
            ELSE [card EXCEPT !.backMarkdown = content, !.backSet = TRUE,
                              !.backID = idContentInfo.id,
                              !.backScope = idContentInfo.scope]
        Stored(idContentInfo, card) ==
            IF predicate.has /\ isDone(predicate.id, idContentInfo, card)
            THEN [thrown |-> "",
                  result |-> [result EXCEPT ![idContentInfo.id.cardID] = card]]
            ELSE PopulateFrom(doc, Tail(filtered), contentInfos,
                              [result EXCEPT ![idContentInfo.id.cardID] = card],
                              predicate, options)
        Populated(idContentInfo) ==
            IF idContentInfo.id.cardID = ""
            THEN [thrown |-> "Error: missing card ID", result |-> result]
            ELSE Stored(idContentInfo,
                    Assigned(idContentInfo,
                        IF result[idContentInfo.id.cardID].isNull THEN EmptyCard
                        ELSE result[idContentInfo.id.cardID],
                        getContentFromInfo(doc, idContentInfo, contentInfos, options)))
    IN IF filtered = <<>> THEN [thrown |-> "", result |-> result]
       ELSE Populated(Head(filtered))

\* getContentFromInfos
getContentFromInfos(doc, contentInfos, result, predicate, options) ==
    PopulateFrom(doc,
        IF predicate.has
        THEN SelectSeq(contentInfos, LAMBDA i : iterationFilter(predicate.id, i))
        ELSE contentInfos,
        contentInfos, result, predicate, options)

\* getContentFromFile, after the awaited read: fileCacheOrThrow, then the parse.
getContentFromFile(noteID, file, result, predicate, options) ==
    LET Populated(found) ==
            IF found.thrown # "" THEN [thrown |-> found.thrown, result |-> result]
            ELSE getContentFromInfos(file.doc, found.infos, result, predicate, options)
    IN IF ~file.hasCache THEN [thrown |-> "FileParserError", result |-> result]
       ELSE Populated(findAllContentInfosInFile(noteID, file.doc))

\* processParseResult: each card of the parse result as complete or incomplete.
processParseResult(maybeIncompleteCards) ==
    [cardID \in CardIDs |->
        IF maybeIncompleteCards[cardID].isNull
        THEN [isNull |-> TRUE, complete |-> NullCard, incomplete |-> NullCard]
        ELSE IF isComplete(maybeIncompleteCards[cardID])
        THEN [isNull |-> FALSE, complete |-> maybeIncompleteCards[cardID], incomplete |-> NullCard]
        ELSE [isNull |-> FALSE, complete |-> NullCard, incomplete |-> maybeIncompleteCards[cardID]]]

notFound == [isNull |-> FALSE, complete |-> NullCard, incomplete |-> NullCard]

\* The end of getCard: the result for the requested card.
getCardResult(parseResult, cardID) ==
    IF parseResult[cardID].isNull THEN notFound
    ELSE processParseResult(parseResult)[cardID]

\* getAllFilesSortedByLikelihood with the sort left out.
getAllFilesUnsorted(id, files, hints) == files

\* getAllFilesSortedByLikelihood
getAllFilesSortedByLikelihood(id, files, hints) ==
    ArraySort(files, "likelihood", [noteID |-> id.noteID, hints |-> hints])

\* getCard: "as soon as both sides are found, stop iterating".
shouldBreak(parseResult, cardID) ==
    ~parseResult[cardID].isNull /\ isComplete(parseResult[cardID])

\* A loop that starts the next read while one is still awaited.
mayReadNextUnawaited(call) == call.pc \in {"loop", "reading"}

\* `await this.getContentFromFile(...)` in the loop: the next iteration starts
\* only when the awaited file has been processed.
mayReadNext(call) == call.pc = "loop"

\* ------------------------------------------------------------ notes (inputs)

NoteA == "noteA.md"

NameOf(i) ==
    CASE i = 1 -> "a" [] i = 2 -> "b" [] i = 3 -> "c" [] i = 4 -> "d"
      [] i = 5 -> "e" [] i = 6 -> "f2" [] OTHER -> "g"

\* Every unmarked heading gets its own text, by its place in the note.
Named(shape) ==
    [i \in DOMAIN shape |->
        IF shape[i].kind = "heading" /\ shape[i].mark = ""
        THEN [shape[i] EXCEPT !.name = NameOf(i)] ELSE shape[i]]

NotesOver(blocks, maxLen) == {Named(shape) : shape \in UNION {[1..n -> blocks] : n \in 0..maxLen}}

CardFront == Card(Str("front"), Str("x"))
CardBack == Card(Str("back"), Str("x"))

\* Notes with explicit declaration blocks under headings and thematic breaks.
ExplicitBlocks == {Heading(1, "", ""), Heading(2, "", ""), Hr, Para, CardFront, CardBack}

\* Notes whose headings carry inline markers.
MarkerBlocks == {Heading(1, "", ""), Heading(2, "front", "x"), Heading(2, "b", "x"),
                 Para, CardBack}

\* Notes with one kind of command block each.
CommandBlocks(name) == {Heading(1, "", ""), Heading(2, "", ""), Heading(3, "", ""), Hr,
                        Command(Str(name), Num(1))}

\* Notes of a heading, a HeadingIsFront command under it, and headings and
\* paragraphs after the command.
HeadingIsFrontNotes ==
    {Named(<<Heading(p, "", ""), Command(Str("hf"), Num(level))>> \o tail) :
        p \in {1, 2}, level \in {1, 2},
        tail \in UNION {[1..n -> {Heading(1, "", ""), Heading(2, "", ""),
                                  Heading(3, "", ""), Para}] : n \in 0..MaxBlocks}}

Options == [hideCardSectionMarker : BOOLEAN, hideDeclarationBlock : BOOLEAN]

\* The notes and the cards the data store is about.
StoreNotes == {"noteA.md", "noteB.md"}
StoreCards == {"x", "y"}

\* CardsData: each card's statistics, named by the note the statistics were
\* created for ("": the note has no such card).
NoCards == [c \in StoreCards |-> ""]

\* data.active[noteID] and data.removed[noteID] when the key is missing.
NoNoteData == [has |-> FALSE, cs |-> NoCards]

\* DataStore.DEFAULT_DATA in a new DataStore: the data, _isDataDirty, the
\* error the last operation threw, the data saveData last wrote and the
\* save() calls awaiting their write, oldest first.
NoStore ==
    [active |-> [n \in StoreNotes |-> NoNoteData],
     removed |-> [n \in StoreNotes |-> NoNoteData],
     dirty |-> FALSE, thrown |-> "",
     written |-> [active |-> [n \in StoreNotes |-> NoNoteData],
                  removed |-> [n \in StoreNotes |-> NoNoteData]],
     saving |-> <<>>]

VARIABLES
    doc,        \* the note being parsed: its blocks
    hasCache,   \* whether the host has an outline for the note
    op,         \* the operation that produced `out`
    out,        \* what the operation returned
    vault,      \* app.vault.getFiles(): the files, in the host's order
    calls,      \* the getCard and getAllCards calls and where each one stands
    store       \* the DataStore

vars == <<doc, hasCache, op, out, vault, calls, store>>

\* --------------------------------------------------------------- extraction

ExtractNotes ==
    NotesOver(ExplicitBlocks, MaxBlocks) \cup NotesOver(MarkerBlocks, MaxBlocks)
    \cup NotesOver(CommandBlocks("hf"), MaxBlocks - 1)
    \cup NotesOver(CommandBlocks("hd"), MaxBlocks - 1)
    \cup NotesOver(CommandBlocks("ah"), MaxBlocks - 1)
    \cup HeadingIsFrontNotes

Init ==
    /\ doc \in ExtractNotes
    /\ hasCache = TRUE
    /\ op = "none"
    /\ out = <<>>
    /\ store = NoStore
    /\ vault = <<>>
    /\ calls = <<>>

\* findAllContentInfosInFile on the note.
FindAllContentInfos ==
    /\ op = "none"
    /\ op' = "infos"
    /\ out' = findAllContentInfosInFile(NoteA, doc)
    /\ UNCHANGED <<doc, hasCache, vault, calls, store>>

\* getContentFromInfo for one of the sides found, under some options.
GetContentFromInfo ==
    /\ op = "infos"
    /\ out.thrown = ""
    /\ \E k \in 1..Len(out.infos), options \in Options :
          /\ op' = "content"
          /\ out' = [infos |-> out.infos, info |-> out.infos[k], options |-> options,
                     ranges |-> rangesToExclude(doc, out.infos[k], out.infos, options),
                     content |-> getContentFromInfo(doc, out.infos[k], out.infos, options)]
    /\ UNCHANGED <<doc, hasCache, vault, calls, store>>

Next == FindAllContentInfos \/ GetContentFromInfo

Spec == Init /\ [][Next]_vars

\* ------------------------------------------------------- extraction: claims

StartOffsetOf(info) == IF info.range.start.kind = "null" THEN 0 ELSE info.range.start.start
EndOffsetOf(note, info) == IF info.range.end.kind = "null" THEN TextLen(note) ELSE info.range.end.start
Chars(content) == {content[k] : k \in 1..Len(content)}
InSomeRange(p, ranges) == \E k \in 1..Len(ranges) : ranges[k].start <= p /\ p < ranges[k].end
Occurrences(content, p) == Cardinality({k \in 1..Len(content) : content[k] = p})
SectionChars(section) == {p \in 0..(section.end - 1) : p >= section.start}
IsExplicitSide(info) == info.scope = IDScope_UNIQUE /\ info.section.kind = SECTION_TYPE_CODE

C2_ContentIsTextWithoutExcluded ==
    op = "content" =>
        /\ \A k \in 1..Len(out.content) :
              /\ out.content[k] >= StartOffsetOf(out.info)
              /\ out.content[k] < EndOffsetOf(doc, out.info)
              /\ ~InSomeRange(out.content[k], out.ranges)
              /\ k > 1 => out.content[k - 1] < out.content[k]
        /\ \A p \in 0..(TextLen(doc) - 1) :
              (p >= StartOffsetOf(out.info) /\ p < EndOffsetOf(doc, out.info)
               /\ ~InSomeRange(p, out.ranges))
              => Occurrences(out.content, p) = 1

\* C2's case: a bounded side with a nested block cut out of the middle of
\* its content.
C2_Witness ==
    /\ op = "content"
    /\ out.info.range.end.kind # "null"
    /\ out.options.hideCardSectionMarker
    /\ \E k \in 1..Len(out.ranges) :
          /\ out.ranges[k].start > StartOffsetOf(out.info)
          /\ out.ranges[k].end > out.ranges[k].start
          /\ out.ranges[k].end <= EndOffsetOf(doc, out.info)
          /\ \E a, b \in Chars(out.content) : a < out.ranges[k].start /\ b >= out.ranges[k].end

\* ------------------------------------------------------------ range engine

HeadingsBefore(note, section) ==
    {k \in 1..Len(Headings(note)) : Headings(note)[k].start < section.start}
NearestHeadingBefore(note, section) ==
    CHOOSE k \in HeadingsBefore(note, section) : \A m \in HeadingsBefore(note, section) : m <= k
\* C3: an explicit declaration block that has a heading before it gets the
\* range of that heading's section: from the nearest heading before the block
\* to the next heading of the same or a lower level (none: the note's end).
C3_ExplicitSideConfinedToHeadingSection ==
    (op = "infos" /\ out.thrown = "") =>
        \A k \in 1..Len(out.infos) :
            (IsExplicitSide(out.infos[k]) /\ HeadingsBefore(doc, out.infos[k].section) # {})
            => LET h == NearestHeadingBefore(doc, out.infos[k].section)
               IN /\ out.infos[k].range.start = Headings(doc)[h]
                  /\ out.infos[k].range.end = NextHeadingAtOrAbove(Headings(doc), h)

Orderings(arr) ==
    {[i \in 1..Len(arr) |-> arr[f[i]]] :
        f \in {g \in [1..Len(arr) -> 1..Len(arr)] : \A i, j \in 1..Len(arr) : g[i] = g[j] => i = j}}

EndPredicates == {"headingLevel", "always", "never"}

RangeNotes == NotesOver({Heading(1, "", ""), Heading(2, "", ""), Hr, CardFront}, MaxBlocks)

RangeInit ==
    /\ doc \in RangeNotes
    /\ hasCache = TRUE
    /\ op = "none"
    /\ out = <<>>
    /\ store = NoStore
    /\ vault = <<>>
    /\ calls = <<>>

\* rangeForSection for a code section of the note, the note's delimiters being
\* offered in some order, under some end predicate.
RangeForSection ==
    /\ op = "none"
    /\ \E i \in 1..Len(doc), pred \in EndPredicates :
          /\ isCodeSection(Sections(doc)[i])
          /\ \E candidates \in Orderings(relevantSections(doc)) :
                /\ op' = "range"
                /\ out' = [section |-> Sections(doc)[i], candidates |-> candidates,
                           pred |-> pred,
                           range |-> RangeOf(rangeForSection(Sections(doc)[i], candidates, pred))]
    /\ UNCHANGED <<doc, hasCache, vault, calls, store>>

RangeNext == RangeForSection

SpecRange == RangeInit /\ [][RangeNext]_vars

CandidatesNotAfter(section, candidates) ==
    {c \in Chars(candidates) : c.start <= section.end}
EndsAfter(start, candidates, pred) ==
    {c \in Chars(candidates) : c.start > start.start /\ EndPredicate(pred, start, c)}

\* C4: rangeForSection returns as start the candidate with the greatest start
\* offset that is not after the section's end (null: every candidate is after
\* it) and as end the first candidate after start, by offset, that satisfies
\* endPredicate(start, candidate) (null: none does), in whatever order the
\* candidates are given.
C4_RangeForSection ==
    op = "range" =>
        LET S == CandidatesNotAfter(out.section, out.candidates)
            start == IF S = {} THEN NullItem
                     ELSE CHOOSE c \in S : \A d \in S : d.start <= c.start
            E == IF S = {} THEN {} ELSE EndsAfter(start, out.candidates, out.pred)
            end == IF E = {} THEN NullItem
                   ELSE CHOOSE c \in E : \A d \in E : c.start <= d.start
        IN out.range = [start |-> start, end |-> end]

\* C4's cases: a block between two level-2 headings, and a block after the
\* last heading, the candidates being given out of offset order.
C4_Witness ==
    /\ op = "range"
    /\ out.pred = "headingLevel"
    /\ Len(out.candidates) >= 3
    /\ out.candidates[1].start > out.candidates[2].start
    /\ isHeadingCache(out.range.start) /\ out.range.start.level = 2
    /\ isHeadingCache(out.range.end) /\ out.range.end.level = 2
    /\ out.range.start.start < out.section.start
    /\ out.section.start < out.range.end.start

C4_WitnessAfterLastHeading ==
    /\ op = "range"
    /\ out.pred = "headingLevel"
    /\ isHeadingCache(out.range.start)
    /\ out.range.end = NullItem
    /\ \A k \in 1..Len(Headings(doc)) : Headings(doc)[k].start <= out.range.start.start


\* --------------------------------------------------------------- resolution

MaxFiles == 3

PathOf(i) ==
    CASE i = 1 -> "noteA.md" [] i = 2 -> "noteB.md" [] i = 3 -> "noteC.md"
      [] i = 4 -> "noteD.md" [] OTHER -> "noteE.md"

\* A path no file of the vault has.
NoSuchPath == "gone.md"

Paths == {PathOf(i) : i \in 1..MaxFiles}

NoteFront == Heading(2, "front", "x")
NoteBack == Heading(2, "b", "x")

\* Notes declaring sides of the Unique card x, and a note about another card.
UniqueDocs == {<<CardFront>>, <<CardBack>>, <<Card(Str("front"), Str("y"))>>}

\* Notes declaring sides of the NoteScoped card x.
ScopedDocs == {<<NoteFront>>, <<NoteBack>>, <<NoteFront, NoteBack>>}

File(path, blocks, cached) == [path |-> path, doc |-> blocks, hasCache |-> cached]

\* The vaults of n files over the given notes, in the order getFiles() returns
\* them; a file the host has no outline for is possible when withUncached.
VaultsOver(docs, withUncached) ==
    UNION {{[i \in 1..n |-> File(PathOf(i), shape[i].doc, shape[i].hasCache)] :
                shape \in [1..n -> {[doc |-> d, hasCache |-> TRUE] : d \in docs}
                                   \cup (IF withUncached
                                         THEN {[doc |-> <<Para>>, hasCache |-> FALSE]}
                                         ELSE {})]} :
           n \in 0..MaxFiles}

PathsOf(files) == [i \in 1..Len(files) |-> files[i].path]

FileAt(files, path) == files[CHOOSE i \in 1..Len(files) : files[i].path = path]

NewCall(kind, id, hints) ==
    [kind |-> kind, pc |-> "idle", id |-> id, hints |-> hints, files |-> <<>>,
     issued |-> 0, processed |-> 0, parseResult |-> EmptyParseResult,
     result |-> notFound, all |-> processParseResult(EmptyParseResult), thrown |-> ""]

GetCardCalls(noteIDs, hintSets) ==
    {NewCall("getCard", FullID_create(n, "x", TRUE), h) : n \in noteIDs, h \in hintSets}

ResolveInit ==
    /\ doc = <<>>
    /\ hasCache = TRUE
    /\ op = "none"
    /\ out = <<>>
    /\ store = NoStore
    /\ \/ /\ vault \in VaultsOver(UniqueDocs, FALSE)
          /\ \E call \in GetCardCalls(Paths \cup {NoSuchPath}, SUBSET Paths) :
                calls = <<call>>
       \/ /\ vault \in VaultsOver(UniqueDocs \cup ScopedDocs, TRUE)
          /\ \E call \in GetCardCalls(Paths, {{}}) \cup {NewCall("getAllCards", NoID, {})} :
                calls = <<call>>

\* The call has returned or thrown: what it leaves behind.
Returned(call) ==
    [call EXCEPT !.pc = "done",
                 !.result = IF call.kind = "getCard"
                            THEN getCardResult(call.parseResult, call.id.cardID)
                            ELSE call.result,
                 !.all = IF call.kind = "getAllCards"
                         THEN processParseResult(call.parseResult)
                         ELSE call.all]

\* The loop's next step once a file has been processed, or before the first.
Continue(call) ==
    IF \/ call.processed = Len(call.files)
       \/ call.kind = "getCard" /\ call.processed > 0
                                /\ shouldBreak(call.parseResult, call.id.cardID)
    THEN Returned(call)
    ELSE [call EXCEPT !.pc = "loop"]

\* getCard up to its loop: the files sorted by likelihood.
GetCardStart(c) ==
    /\ calls[c].kind = "getCard"
    /\ calls[c].pc = "idle"
    /\ calls[c].id.cardID # ""
    /\ calls' = [calls EXCEPT ![c] = Continue(
           [calls[c] EXCEPT !.files = getAllFilesSortedByLikelihood(
                                          calls[c].id, PathsOf(vault), calls[c].hints)])]
    /\ UNCHANGED <<doc, hasCache, op, out, vault, store>>

\* getAllCards up to its loop: the files in the host's order.
GetAllCardsStart(c) ==
    /\ calls[c].kind = "getAllCards"
    /\ calls[c].pc = "idle"
    /\ calls' = [calls EXCEPT ![c] = Continue([calls[c] EXCEPT !.files = PathsOf(vault)])]
    /\ UNCHANGED <<doc, hasCache, op, out, vault, store>>

\* The loop calls getContentFromFile for its next file, which starts the read.
ReadNext(c) ==
    /\ mayReadNext(calls[c])
    /\ calls[c].issued < Len(calls[c].files)
    /\ calls' = [calls EXCEPT ![c] = [calls[c] EXCEPT !.issued = @ + 1, !.pc = "reading"]]
    /\ UNCHANGED <<doc, hasCache, op, out, vault, store>>

\* The awaited read resolves into a parse result that the calls share: the one
\* the first call has built so far.
ReadResolveShared(c) ==
    /\ calls[c].pc = "reading"
    /\ calls[c].processed < calls[c].issued
    /\ LET Resolved(call, got) ==
               IF got.thrown # ""
               THEN [call EXCEPT !.pc = "thrown", !.thrown = got.thrown,
                                 !.processed = @ + 1]
               ELSE Continue([call EXCEPT !.parseResult = got.result,
                                          !.processed = @ + 1])
       IN calls' = [calls EXCEPT ![c] = Resolved(calls[c],
              getContentFromFile(calls[c].files[calls[c].processed + 1],
                  FileAt(vault, calls[c].files[calls[c].processed + 1]),
                  calls[1].parseResult,
                  IF calls[c].kind = "getCard" THEN PredicateFor(calls[c].id) ELSE NoPredicate,
                  DefaultOptions))]
    /\ UNCHANGED <<doc, hasCache, op, out, vault, store>>

\* The awaited read resolves: the file is processed, and the loop breaks, ends
\* or goes on; or the call throws.
ReadResolve(c) ==
    /\ calls[c].pc = "reading"
    /\ calls[c].processed < calls[c].issued
    /\ LET call == calls[c]
           path == call.files[call.processed + 1]
           got == getContentFromFile(path, FileAt(vault, path), call.parseResult,
                      IF call.kind = "getCard" THEN PredicateFor(call.id) ELSE NoPredicate,
                      DefaultOptions)
       IN calls' = [calls EXCEPT ![c] =
              IF got.thrown # ""
              THEN [call EXCEPT !.pc = "thrown", !.thrown = got.thrown,
                                !.processed = @ + 1]
              ELSE Continue([call EXCEPT !.parseResult = got.result,
                                         !.processed = @ + 1])]
    /\ UNCHANGED <<doc, hasCache, op, out, vault, store>>

ResolveNext ==
    \E c \in DOMAIN calls :
        GetCardStart(c) \/ GetAllCardsStart(c) \/ ReadNext(c) \/ ReadResolve(c)

SpecResolve == ResolveInit /\ [][ResolveNext]_vars



\* The declarations of a file that are of the card the call asks for.
DeclaredFor(call, path) ==
    LET found == findAllContentInfosInFile(path, FileAt(vault, path).doc)
    IN IF found.thrown # "" THEN <<>>
       ELSE SelectSeq(found.infos, LAMBDA i : iterationFilter(call.id, i))

\* The sides ("f", "b") of the requested card that the first n files of the
\* call's scan order declare.
SidesIn(call, n) ==
    {side \in {"f", "b"} :
        \E k \in 1..n :
            \E j \in 1..Len(DeclaredFor(call, call.files[k])) :
                DeclaredFor(call, call.files[k])[j].id.cardSide = side}

IsNotFound(result) == result.complete.isNull /\ result.incomplete.isNull
IsIncomplete(result) == result.complete.isNull /\ ~result.incomplete.isNull
IsComplete(result) == ~result.complete.isNull /\ result.incomplete.isNull

\* C5: a getCard call throws only over a scanned file without an outline, never
\* over a missing side.  When it returns, the result is {complete: null,
\* incomplete: null} exactly when the scanned files declare no side of the
\* requested card; it is an incomplete result holding the one side found exactly
\* when they declare one side only, and then every file was scanned; it is a
\* complete card exactly when they declare both sides, and a complete card has a
\* front id and a back id with the requested cardID and both contents.
C5_GetCardResult ==
    \A c \in DOMAIN calls :
        LET call == calls[c]
            sides == SidesIn(call, call.processed)
            r == call.result
        IN /\ call.kind = "getCard" /\ call.pc = "thrown" =>
                 ~FileAt(vault, call.files[call.processed]).hasCache
           /\ call.kind = "getCard" /\ call.pc = "done" =>
                 /\ IsNotFound(r) \/ IsIncomplete(r) \/ IsComplete(r)
                 /\ IsNotFound(r) <=> sides = {}
                 /\ IsIncomplete(r) <=> Cardinality(sides) = 1
                 /\ IsIncomplete(r) =>
                       /\ call.processed = Len(call.files)
                       /\ r.incomplete.frontSet <=> sides = {"f"}
                       /\ r.incomplete.backSet <=> sides = {"b"}
                 /\ IsComplete(r) <=> sides = {"f", "b"}
                 /\ IsComplete(r) =>
                       /\ r.complete.frontSet /\ r.complete.backSet
                       /\ r.complete.frontID.cardID = call.id.cardID
                       /\ r.complete.backID.cardID = call.id.cardID
                       /\ FullID_isFrontSide(r.complete.frontID)
                       /\ ~FullID_isFrontSide(r.complete.backID)

\* A call returned an incomplete result after scanning several files.
C5_Witness ==
    \E c \in DOMAIN calls :
        /\ calls[c].kind = "getCard" /\ calls[c].pc = "done"
        /\ IsIncomplete(calls[c].result)
        /\ calls[c].result.incomplete.backSet
        /\ calls[c].processed >= 2

\* A call returned a complete card whose sides come from two files.
C5_WitnessComplete ==
    \E c \in DOMAIN calls :
        /\ calls[c].kind = "getCard" /\ calls[c].pc = "done"
        /\ IsComplete(calls[c].result)
        /\ calls[c].result.complete.frontID.noteID # calls[c].result.complete.backID.noteID



BothSides == {"f", "b"}

\* C6: getCard starts the read of a file only when every read it started
\* before has resolved and its file has been processed, one file at a time, and
\* it starts no read once the files processed declare both sides of the
\* requested card.
C6_SequentialReads ==
    [][\A c \in DOMAIN calls :
          calls[c].kind = "getCard" /\ calls'[c].issued # calls[c].issued =>
              /\ calls'[c].issued = calls[c].issued + 1
              /\ calls[c].processed = calls[c].issued
              /\ SidesIn(calls[c], calls[c].processed) # BothSides]_vars

\* A call stopped reading with both sides found and files left unread.
C6_Witness ==
    \E c \in DOMAIN calls :
        /\ calls[c].kind = "getCard" /\ calls[c].pc = "done"
        /\ calls[c].processed >= 2
        /\ calls[c].issued = calls[c].processed
        /\ calls[c].processed < Len(calls[c].files)
        /\ SidesIn(calls[c], calls[c].processed) = BothSides
        /\ SidesIn(calls[c], calls[c].processed - 1) # BothSides

\* 0 for the requested note, 1 for a hint, 2 for any other file.
Rank(call, path) ==
    IF path = call.id.noteID THEN 0 ELSE IF path \in call.hints THEN 1 ELSE 2

\* C7: getCard scans every file of the vault once, the requested note first,
\* the hinted notes before every file that is neither, reading them in that
\* order; and it returns a complete card whenever the files of the vault declare
\* both sides, wherever they are.
C7_ScanOrder ==
    \A c \in DOMAIN calls :
        LET call == calls[c]
        IN call.kind = "getCard" /\ call.pc # "idle" =>
              /\ Len(call.files) = Len(vault)
              /\ \A i \in 1..Len(vault) :
                    \E j \in 1..Len(call.files) : call.files[j] = vault[i].path
              /\ \A i, j \in 1..Len(call.files) :
                    i < j => Rank(call, call.files[i]) <= Rank(call, call.files[j])
              /\ call.processed <= call.issued
              /\ call.pc = "done" /\ SidesIn(call, Len(call.files)) = BothSides =>
                    IsComplete(call.result)

\* The front of a Unique card is in noteA.md and its back in noteB.md, among
\* other files; resolved for noteA.md with noteB.md as the hint, noteB.md is the
\* second file read, out of its place in the vault, and the card is complete.
C7_Witness ==
    \E c \in DOMAIN calls :
        /\ calls[c].kind = "getCard" /\ calls[c].pc = "done"
        /\ Len(vault) >= 3
        /\ \E a, b \in 1..Len(vault) :
              /\ a # b /\ b > 2
              /\ vault[a].doc = <<CardFront>> /\ vault[b].doc = <<CardBack>>
              /\ \A k \in 1..Len(vault) : k \notin {a, b} => vault[k].doc \notin {<<CardFront>>, <<CardBack>>}
              /\ calls[c].id.noteID = vault[a].path
              /\ calls[c].hints = {vault[b].path}
              /\ calls[c].files[2] = vault[b].path
        /\ calls[c].processed = 2
        /\ IsComplete(calls[c].result)



\* The cards a call returned: getCard's one, or those of getAllCards.
ReturnedCards(call) ==
    IF call.pc # "done" THEN {}
    ELSE IF call.kind = "getCard"
    THEN {card \in {call.result.complete, call.result.incomplete} : ~card.isNull}
    ELSE {card \in {call.all[k].complete : k \in CardIDs}
                   \cup {call.all[k].incomplete : k \in CardIDs} : ~card.isNull}

\* The file declares both sides of the NoteScoped card cardID.
DeclaresScopedCard(file, cardID) ==
    LET found == findAllContentInfosInFile(file.path, file.doc)
    IN /\ file.hasCache /\ found.thrown = ""
       /\ \A side \in BothSides :
             \E j \in 1..Len(found.infos) :
                /\ found.infos[j].scope = IDScope_NOTE
                /\ found.infos[j].id.cardID = cardID
                /\ found.infos[j].id.cardSide = side

\* C8: in every card getCard or getAllCards returns with both sides from
\* NoteScoped declarations the front and the back are declared in one file, and
\* getAllCards returns, for every file that declares both sides of a NoteScoped
\* card, that file's own front and back.
C8_NoteScopedWithinOneDocument ==
    \A c \in DOMAIN calls :
        /\ \A card \in ReturnedCards(calls[c]) :
              /\ card.frontSet /\ card.backSet
              /\ card.frontScope = IDScope_NOTE /\ card.backScope = IDScope_NOTE
              => card.frontID.noteID = card.backID.noteID
        /\ calls[c].kind = "getAllCards" /\ calls[c].pc = "done" =>
              \A i \in 1..Len(vault) :
                  DeclaresScopedCard(vault[i], "x") =>
                      \E card \in ReturnedCards(calls[c]) :
                          /\ card.frontSet /\ card.backSet
                          /\ card.frontID.noteID = vault[i].path
                          /\ card.backID.noteID = vault[i].path



\* ------------------------------------------------------ commands and faults

\* Notes of a heading, an AlternateHeadings command under it, and headings and
\* thematic breaks after the command.
AlternateNotes ==
    {Named(<<Heading(p, "", ""), Command(Str("ah"), Num(level))>> \o tail) :
        p \in {1, 2}, level \in {1, 2},
        tail \in UNION {[1..n -> {Heading(1, "", ""), Heading(2, "", ""),
                                  Heading(3, "", ""), Hr}] : n \in 0..MaxBlocks}}

\* Notes of a heading, a HeadingAndDelimiter command under it, and headings,
\* thematic breaks and paragraphs after the command.
HeadingAndDelimiterNotes ==
    {Named(<<Heading(p, "", ""), Command(Str("hd"), Num(level))>> \o tail) :
        p \in {1, 2}, level \in {1, 2},
        tail \in UNION {[1..n -> {Heading(1, "", ""), Heading(2, "", ""),
                                  Heading(3, "", ""), Hr, Para}] : n \in 0..MaxBlocks}}

\* Notes of headings that carry the markers front@x and back@x, and text.
MarkedNotes ==
    NotesOver({Heading(2, "front", "x"), Heading(2, "back", "x"), Para}, MaxBlocks)

\* Notes that declare sides of card x more than once, by marked headings
\* (NoteScoped) and by declaration blocks (Unique).
RepeatingNotes ==
    NotesOver({Heading(2, "front", "x"), Heading(2, "b", "x"), CardFront, CardBack, Para},
              MaxBlocks)

\* Blocks a note can get wrong, among headings, thematic breaks and commands.
FaultyBlocks ==
    {Heading(1, "", ""), Heading(2, "", ""), Hr, CardFront,
     Code("ct", "bad", NoObj),
     Card(Str("left"), Str("x")),
     Card(Num(1), Str("x")),
     Card(Str("front"), Absent),
     Command(Str("nope"), Num(1)),
     Command(Str("ah"), Num(0)),
     Code("ct", "ok", [NoObj EXCEPT !.name = Str("hd"), !.level = Num(1),
                                    !.delimiter = Str("heading")]),
     Command(Str("hd"), Num(1))}

FaultyNotes == NotesOver(FaultyBlocks, MaxBlocks - 1)

ParseInit ==
    /\ \/ doc \in AlternateNotes /\ hasCache = TRUE
       \/ doc \in HeadingAndDelimiterNotes /\ hasCache = TRUE
       \/ doc \in MarkedNotes /\ hasCache = TRUE
       \/ doc \in RepeatingNotes /\ hasCache = TRUE
       \/ doc \in FaultyNotes /\ hasCache \in BOOLEAN
    /\ op = "none"
    /\ out = <<>>
    /\ store = NoStore
    /\ vault = <<>>
    /\ calls = <<>>

\* getAutoDeclarationsFromSection for one of the note's code sections.
GetAutoDeclarations ==
    /\ op = "none"
    /\ hasCache
    /\ \E i \in 1..Len(doc) :
          /\ isCodeSection(Sections(doc)[i])
          /\ op' = "auto"
          /\ out' = [index |-> i,
                     auto |-> getAutoDeclarationsFromSection(Sections(doc)[i], doc)]
    /\ UNCHANGED <<doc, hasCache, vault, calls, store>>

\* getAllIDsInFile on the note: the enumeration of its identifiers.
GetAllIDsInFile ==
    /\ op = "none"
    /\ op' = "ids"
    /\ out' = getAllIDsInFile(NoteA, doc, hasCache)
    /\ UNCHANGED <<doc, hasCache, vault, calls, store>>

\* getContentFromFile on the note, as getAllCards and getCard call it.
GetContentFromFile ==
    /\ op = "none"
    /\ \E predicate \in {NoPredicate, PredicateFor(FullID_create(NoteA, "x", TRUE))} :
          /\ op' = "file"
          /\ out' = getContentFromFile(NoteA, File(NoteA, doc, hasCache),
                                       EmptyParseResult, predicate, DefaultOptions)
    /\ UNCHANGED <<doc, hasCache, vault, calls, store>>

ParseNext == GetAutoDeclarations \/ GetAllIDsInFile \/ GetContentFromFile

SpecParse == ParseInit /\ [][ParseNext]_vars

\* C9: enumeration (getAllIDsInFile) and resolution (getContentFromFile) throw
\* only when the host has no outline for the note.
C9_ThrowsOnlyWithoutOutline ==
    (op \in {"ids", "file"} /\ out.thrown # "") => ~hasCache

\* The index of the nearest heading or thematic break before block c (0: none).
DelimiterBefore(note, c) ==
    IF \E i \in 1..(c - 1) : note[i].kind \in {"heading", "thematicBreak"}
    THEN CHOOSE i \in 1..(c - 1) :
            /\ note[i].kind \in {"heading", "thematicBreak"}
            /\ \A j \in (i + 1)..(c - 1) : note[j].kind \notin {"heading", "thematicBreak"}
    ELSE 0

\* The headings AlternateHeadings is to consider for the command at block c
\* under the heading at block p: those after the command, inside p's section,
\* whose level is p's level plus the command's, in document order.
ConsideredHeadings(note, p, c) ==
    SelectSeq([i \in 1..Len(note) |-> i],
        LAMBDA i :
            /\ i > c
            /\ note[i].kind = "heading"
            /\ note[i].level = note[p].level + note[c].obj.level.n
            /\ \A j \in (c + 1)..(i - 1) :
                  ~(note[j].kind = "heading" /\ note[j].level <= note[p].level))

\* C10: an AlternateHeadings command under a heading generates one declaration
\* for each heading of its section whose level is the parent's level plus the
\* command's, in document order; the N-th of them (from 0) is a front with that
\* heading's text as its id when N is even, and a back with the id of the
\* declaration before it when N is odd.
C10_AlternateHeadings ==
    (op = "auto" /\ createParser(doc[out.index]).found
                 /\ createParser(doc[out.index]).parser.kind = "ah"
                 /\ DelimiterBefore(doc, out.index) # 0
                 /\ doc[DelimiterBefore(doc, out.index)].kind = "heading") =>
        LET considered == ConsideredHeadings(doc, DelimiterBefore(doc, out.index), out.index)
            generated == out.auto.generated
        IN /\ out.auto.thrown = ""
           /\ Len(generated) = Len(considered)
           /\ \A n \in 1..Len(generated) :
                 /\ generated[n].range.start = HeadingCache(doc, considered[n])
                 /\ generated[n].declaration.isAutoGenerated
                 /\ generated[n].declaration.side = IF n % 2 = 1 THEN "front" ELSE "back"
                 /\ generated[n].declaration.id =
                       IF n % 2 = 1 THEN HeadingText(doc[considered[n]])
                       ELSE generated[n - 1].declaration.id
                 /\ n % 2 = 0 =>
                       generated[n].declaration.id = HeadingText(doc[considered[n - 1]])

\* Four sub-headings under the parent, nothing else: front, back, front, back,
\* with the ids of the first and the third heading.
C10_Witness ==
    /\ op = "auto"
    /\ Len(doc) = 6
    /\ doc[1].level = 1 /\ doc[2].obj.level = Num(1)
    /\ \A i \in 3..6 : doc[i].kind = "heading" /\ doc[i].level = 2
    /\ Len(out.auto.generated) = 4
    /\ [n \in 1..4 |-> <<out.auto.generated[n].declaration.side,
                         out.auto.generated[n].declaration.id>>]
          = << <<"front", HeadingText(doc[3])>>, <<"back", HeadingText(doc[3])>>,
               <<"front", HeadingText(doc[5])>>, <<"back", HeadingText(doc[5])>> >>

\* ----------------------------------------------------- commands: the ranges

\* The block a heading or a section of the outline stands for.
BlockIndex(item) == (item.start \div BlockLen) + 1

\* The first heading after block i whose level is at most `level`, as the
\* outline has it (none: null).
FirstHeadingAfter(note, i, level) ==
    LET after == {j \in (i + 1)..Len(note) :
                    note[j].kind = "heading" /\ note[j].level <= level}
    IN IF after = {} THEN NullItem
       ELSE HeadingCache(note, CHOOSE j \in after : \A m \in after : j <= m)

IsCommand(note, i, kind) ==
    createParser(note[i]).found /\ createParser(note[i]).parser.kind = kind

\* C11: every side AlternateHeadings generates from a heading h has a range
\* that starts at h and ends at the first heading after h whose level is less
\* than or equal to h's (null when no such heading follows), thematic breaks and
\* deeper headings being skipped; findNextHeading(level, index, delimiters)
\* returns that heading for every level and every index of the delimiters.
C11_AlternateHeadingsRange ==
    (op = "auto" /\ IsCommand(doc, out.index, "ah")) =>
        /\ \A n \in 1..Len(out.auto.generated) :
              LET range == out.auto.generated[n].range
              IN /\ isHeadingCache(range.start)
                 /\ range.start = HeadingCache(doc, BlockIndex(range.start))
                 /\ range.end = FirstHeadingAfter(doc, BlockIndex(range.start),
                                                  range.start.level)
        /\ LET delimiters == headingRangeForSection(Sections(doc)[out.index], doc).delimiters
           IN \A index \in 1..Len(delimiters), level \in 1..3 :
                 findNextHeading(level, index, delimiters)
                    = FirstHeadingAfter(doc, BlockIndex(delimiters[index]), level)

\* A side whose end is found past a thematic break and a deeper heading, and a
\* side with no end.
C11_Witness ==
    /\ op = "auto" /\ IsCommand(doc, out.index, "ah")
    /\ Len(doc) = 6
    /\ doc[3].kind = "heading" /\ doc[3].level = 2
    /\ doc[4].kind = "thematicBreak"
    /\ doc[5].kind = "heading" /\ doc[5].level = 3
    /\ doc[6].kind = "heading" /\ doc[6].level = 2
    /\ Len(out.auto.generated) = 2
    /\ out.auto.generated[1].range.end = HeadingCache(doc, 6)
    /\ out.auto.generated[2].range.end = NullItem

\* A heading, a HeadingAndDelimiter command, one heading at the command's
\* level, a thematic break, text, and a sibling of that heading.
C12_Case ==
    /\ op = "auto" /\ out.index = 2 /\ IsCommand(doc, 2, "hd")
    /\ Len(doc) = 6
    /\ doc[1].kind = "heading"
    /\ doc[3].kind = "heading" /\ doc[3].level = doc[1].level + doc[2].obj.level.n
    /\ doc[4].kind = "thematicBreak"
    /\ doc[5].kind = "paragraph"
    /\ doc[6].kind = "heading" /\ doc[6].level = doc[3].level

\* The front from the heading to the thematic break and the back from the
\* thematic break to the sibling heading, both with the heading's text as id.
C12_FrontThenBack ==
    /\ Len(out.auto.generated) >= 2
    /\ out.auto.generated[1].declaration.side = "front"
    /\ out.auto.generated[1].declaration.id = HeadingText(doc[3])
    /\ out.auto.generated[1].range = [start |-> HeadingCache(doc, 3),
                                      end |-> SectionCache(doc, 4)]
    /\ out.auto.generated[2].declaration.side = "back"
    /\ out.auto.generated[2].declaration.id = HeadingText(doc[3])
    /\ out.auto.generated[2].range = [start |-> SectionCache(doc, 4),
                                      end |-> HeadingCache(doc, 6)]

\* C12 as stated: for a HeadingAndDelimiter command whose section holds one
\* heading at the command's level, then a thematic break, then text, then a
\* sibling heading, exactly two declarations are produced, the front from the
\* heading to the break and the back from the break to the sibling heading.
C12_ExactlyTwoDeclarations ==
    C12_Case => (out.auto.thrown = "" /\ Len(out.auto.generated) = 2 /\ C12_FrontThenBack)

\* C12 as amended: the first two declarations are that front and that back,
\* and the sibling heading, being at the command's level too, produces a third
\* declaration, a front with the sibling's text as id that starts at the
\* sibling and has no end.
C12_TwoDeclarationsThenSibling ==
    C12_Case =>
        /\ out.auto.thrown = ""
        /\ C12_FrontThenBack
        /\ Len(out.auto.generated) = 3
        /\ out.auto.generated[3].declaration.side = "front"
        /\ out.auto.generated[3].declaration.id = HeadingText(doc[6])
        /\ out.auto.generated[3].range = [start |-> HeadingCache(doc, 6), end |-> NullItem]

C12_Witness == C12_Case /\ doc[1].level = 1 /\ doc[3].level = 2

\* The thematic breaks inside the section of the heading at block i: after it
\* and before the next heading whose level is at most its own.
BreaksInSection(note, i) ==
    {j \in (i + 1)..Len(note) :
        /\ note[j].kind = "thematicBreak"
        /\ \A k \in (i + 1)..(j - 1) :
              ~(note[k].kind = "heading" /\ note[k].level <= note[i].level)}

\* C13: every front HeadingAndDelimiter generates from a heading h ends at the
\* first thematic break inside h's own section (it has no end when the section
\* holds none), and the back that starts at that break ends at the next heading
\* whose level is less than or equal to h's (null: the end of the note).
C13_FrontEndsInsideOwnSection ==
    (op = "auto" /\ IsCommand(doc, out.index, "hd") /\ out.auto.thrown = "") =>
        \A n \in 1..Len(out.auto.generated) :
            LET front == out.auto.generated[n]
                h == BlockIndex(front.range.start)
                breaks == BreaksInSection(doc, h)
            IN (front.declaration.side = "front" /\ isHeadingCache(front.range.start)) =>
                  /\ front.range.end =
                        IF breaks = {} THEN NullItem
                        ELSE SectionCache(doc, CHOOSE j \in breaks : \A m \in breaks : j <= m)
                  /\ breaks # {} =>
                        /\ n < Len(out.auto.generated)
                        /\ out.auto.generated[n + 1].declaration.side = "back"
                        /\ out.auto.generated[n + 1].range.start = front.range.end
                        /\ out.auto.generated[n + 1].range.end
                              = FirstHeadingAfter(doc, BlockIndex(front.range.end), doc[h].level)

\* ------------------------------------------------- commands: the contents

\* The sides the note's outline attributes to the code section at block c.
InfosOf(infos, c) ==
    SelectSeq(infos, LAMBDA i : i.section.kind = SECTION_TYPE_CODE
                                /\ i.section.start = BlockStart(c))

\* The characters of the note's fenced blocks.
CodeChars(note) ==
    UNION {SectionChars(SectionCache(note, i)) \cup {BlockEnd(i)} :
              i \in {j \in 1..Len(note) : note[j].kind = "code"}}

\* C14: for every heading at level parentLevel + level inside the section of a
\* HeadingIsFront command, and for no other heading, two declarations are
\* generated with the heading's text as id, the front first; the front's
\* content is the heading's own line, and the back's content is everything that
\* is not a declaration block from immediately after the heading to the start
\* of the next heading of the same or a higher level (the note's end if none).
C14_HeadingIsFront ==
    /\ (op = "infos" /\ out.thrown = "") =>
          \A c \in 1..Len(doc) :
              (IsCommand(doc, c, "hf") /\ DelimiterBefore(doc, c) # 0
               /\ doc[DelimiterBefore(doc, c)].kind = "heading") =>
                  LET considered == ConsideredHeadings(doc, DelimiterBefore(doc, c), c)
                      mine == InfosOf(out.infos, c)
                  IN /\ Len(mine) = 2 * Len(considered)
                     /\ \A n \in 1..Len(considered) :
                           LET h == HeadingCache(doc, considered[n])
                           IN /\ mine[2 * n - 1].id = FullID_create(NoteA, h.text, TRUE)
                              /\ mine[2 * n].id = FullID_create(NoteA, h.text, FALSE)
                              /\ mine[2 * n - 1].range = [start |-> Loc(h.start),
                                                          end |-> Loc(h.end)]
                              /\ mine[2 * n].range.start = Loc(h.end)
                              /\ mine[2 * n].range.end
                                    = FirstHeadingAfter(doc, considered[n], h.level)
    /\ (op = "content" /\ out.info.section.kind = SECTION_TYPE_CODE
                       /\ IsCommand(doc, BlockIndex(out.info.section), "hf")) =>
          LET h == HeadingCache(doc, BlockIndex(out.info.range.start))
              next == FirstHeadingAfter(doc, BlockIndex(out.info.range.start), h.level)
              last == IF next = NullItem THEN TextLen(doc) ELSE next.start
          IN IF FullID_isFrontSide(out.info.id)
             THEN out.content = Slice(h.start, h.end, TextLen(doc))
             ELSE /\ Chars(out.content) \ CodeChars(doc)
                        = {q \in h.end..(last - 1) : q \notin CodeChars(doc)}
                  /\ \A k \in 2..Len(out.content) : out.content[k - 1] < out.content[k]

\* A back whose content runs over a deeper heading and a paragraph up to the
\* next heading of the same level.
C14_Witness ==
    /\ op = "content"
    /\ Len(doc) = 6
    /\ IsCommand(doc, 2, "hf") /\ out.info.section.start = BlockStart(2)
    /\ doc[3].kind = "heading" /\ doc[3].level = 2
    /\ doc[4].kind = "heading" /\ doc[4].level = 3
    /\ doc[5].kind = "paragraph"
    /\ doc[6].kind = "heading" /\ doc[6].level = 2
    /\ ~FullID_isFrontSide(out.info.id)
    /\ out.info.range.start = Loc(BlockEnd(3))
    /\ out.content = Slice(BlockEnd(3), BlockStart(6), TextLen(doc))

\* ------------------------------------------------------- marked headings

\* The note "## front@x\nFoo\n## back@x\nBar".
C15_Case ==
    doc = <<Heading(2, "front", "x"), Para, Heading(2, "back", "x"), Para>>

\* The block's own characters, its line break left out.
OwnChars(i) == {q \in BlockStart(i)..(BlockEnd(i) - 1) : TRUE}
LineBreaks(note) == {BlockEnd(i) : i \in 1..Len(note)}

\* Enumeration yields the front and the back of card x and nothing else, and
\* resolution returns card x complete, both sides read from NoteScoped
\* declarations.
C15_OnePair ==
    /\ op = "ids" =>
          /\ out.thrown = ""
          /\ out.ids = <<FullID_create(NoteA, "x", TRUE), FullID_create(NoteA, "x", FALSE)>>
          /\ out.multipleDefinedIDs = <<>>
    /\ op = "file" =>
          /\ out.thrown = ""
          /\ isComplete(out.result["x"])
          /\ out.result["x"].frontScope = IDScope_NOTE
          /\ out.result["x"].backScope = IDScope_NOTE
          /\ \A cardID \in CardIDs \ {"x"} : out.result[cardID].isNull

C16_OwnBlockHiddenIffOption ==
    (op = "content" /\ IsExplicitSide(out.info)) =>
        IF out.options.hideDeclarationBlock
        THEN Chars(out.content) \cap SectionChars(out.info.section) = {}
        ELSE SectionChars(out.info.section) \subseteq Chars(out.content)

\* C17: the contents of two different sides of one note share no character of
\* the note: a side whose span lies inside another side's range (a side
\* declared in a sub-section of the section that declares the other one) is
\* left out of the other side's content.
C17_ContentsDoNotOverlap ==
    op = "content" =>
        \A k \in 1..Len(out.infos) :
            out.infos[k].id # out.info.id =>
                Chars(out.content)
                \cap Chars(getContentFromInfo(doc, out.infos[k], out.infos, out.options)) = {}

\* ---------------------------------------------------------- duplicates

HasCommand(note) == \E i \in 1..Len(note) : createParser(note[i]).found

\* The declarations of a note without commands, in discovery order: the marked
\* headings (NoteScoped), then the declaration blocks (Unique).
Declarations(note) ==
    LET marked == SelectSeq([i \in 1..Len(note) |-> i],
                    LAMBDA i : note[i].kind = "heading" /\ FULL_ID_REGEX_matches(note[i]))
        blocks == SelectSeq([i \in 1..Len(note) |-> i],
                    LAMBDA i : note[i].kind = "code" /\ parseCodeBlock(note[i]).found)
    IN [k \in 1..Len(marked) |->
            [id |-> findFullIDInText(note[marked[k]], NoteA), scope |-> IDScope_NOTE,
             block |-> marked[k]]]
       \o [k \in 1..Len(blocks) |->
            [id |-> fullIDFromDeclaration(parseCodeBlock(note[blocks[k]]).declaration, NoteA).id,
             scope |-> IDScope_UNIQUE, block |-> blocks[k]]]

IDsOf(declarations) == [k \in 1..Len(declarations) |-> declarations[k].id]

\* C18: in the enumeration of a note, a declaration is pushed to
\* multipleDefinedIDs if and only if a declaration discovered before it has the
\* same scope, side, card id and note; declarations of different scopes are
\* never duplicates of each other.
C18_DuplicatesAreScopeAware ==
    (op = "ids" /\ out.thrown = "" /\ ~HasCommand(doc)) =>
        LET found == Declarations(doc)
            Repeated(k) == \E j \in 1..(k - 1) :
                              found[j].id = found[k].id /\ found[j].scope = found[k].scope
            numbered == [k \in 1..Len(found) |-> [found[k] EXCEPT !.block = k]]
        IN /\ out.multipleDefinedIDs
                = IDsOf(SelectSeq(numbered, LAMBDA d : Repeated(d.block)))
           /\ out.ids = IDsOf(SelectSeq(numbered, LAMBDA d : ~Repeated(d.block)))

\* Declarations of one identifier all have one scope.
SameScoped(found) ==
    \A j, k \in 1..Len(found) : found[j].id = found[k].id => found[j].scope = found[k].scope

\* The content of the first of the note's sides that has the given id.
FirstContent(note, infos, id) ==
    getContentFromInfo(note,
        infos[CHOOSE k \in 1..Len(infos) :
                 infos[k].id = id /\ \A j \in 1..(k - 1) : infos[j].id # id],
        infos, DefaultOptions)

\* C19: when a note declares the same scoped identifier more than once, the
\* first declaration in discovery order is the only one in the enumerated ids,
\* every later one is in multipleDefinedIDs, and resolution returns for that
\* side the content of the first declaration.
C19_FirstDeclarationWins ==
    (~HasCommand(doc) /\ SameScoped(Declarations(doc))) =>
        /\ (op = "ids" /\ out.thrown = "") =>
              \A k \in 1..Len(Declarations(doc)) :
                  LET id == Declarations(doc)[k].id
                  IN /\ Cardinality({j \in 1..Len(out.ids) : out.ids[j] = id}) = 1
                     /\ Cardinality({j \in 1..Len(out.multipleDefinedIDs) :
                                        out.multipleDefinedIDs[j] = id})
                           = Cardinality({j \in 1..Len(Declarations(doc)) :
                                             Declarations(doc)[j].id = id}) - 1
        /\ (op = "file" /\ out.thrown = "") =>
              LET infos == findAllContentInfosInFile(NoteA, doc).infos
                  front == FullID_create(NoteA, "x", TRUE)
                  back == FullID_create(NoteA, "x", FALSE)
              IN /\ out.result["x"].frontSet =>
                       out.result["x"].frontMarkdown = FirstContent(doc, infos, front)
                 /\ out.result["x"].backSet =>
                       out.result["x"].backMarkdown = FirstContent(doc, infos, back)

\* ------------------------------------------------------ resolving twice

\* The same call made twice over one vault; the two may run one after the
\* other or overlap at their awaits.
TwiceInit ==
    /\ doc = <<>>
    /\ hasCache = TRUE
    /\ op = "none"
    /\ out = <<>>
    /\ store = NoStore
    /\ vault \in VaultsOver(UniqueDocs, FALSE)
    /\ \E call \in GetCardCalls(Paths, {{}}) \cup {NewCall("getAllCards", NoID, {})} :
          calls = <<call, call>>

SpecTwice == TwiceInit /\ [][ResolveNext]_vars

Frontmatter(obj) ==
    [kind |-> "yaml", level |-> 0, mark |-> "", name |-> "",
     lang |-> "", yaml |-> "ok", obj |-> obj]

\* Declaration.conformsToDeckable: the mapping after the call, which gives it
\* a deckID key when it has none.
AfterConformsToDeckable(obj) ==
    IF obj.deckID.t = "absent" THEN [obj EXCEPT !.deckID = Null] ELSE obj

\* CardDeclarationAssistant.conformsToDefaultable and conformsToDeclarable as
\* getDeclarationFromFrontmatter calls them: the mapping after the calls.  The
\* second call runs when the first returned true, and gives the mapping an
\* empty id when it has none.
AfterConformsToDeclarable(obj) ==
    LET WithID(deckable) ==
            IF deckable.side.t # "absent" /\ deckable.id.t = "absent"
            THEN [deckable EXCEPT !.id = Str("")] ELSE deckable
    IN WithID(AfterConformsToDeckable(obj))

\* Notes with a frontmatter declaration, then marked headings, declaration
\* blocks and text.
FrontmatterNotes ==
    {<<Frontmatter([NoObj EXCEPT !.side = side, !.id = id, !.deck = deck])>> \o tail :
        side \in {Absent, Str("front"), Str("b")},
        id \in {Absent, Str("x"), Num(7)},
        deck \in {Absent, Str("d")},
        tail \in NotesOver({Heading(2, "front", "x"), CardBack, Para}, MaxBlocks - 2)}

OutlineInit ==
    /\ doc \in FrontmatterNotes
    /\ hasCache = TRUE
    /\ op = "none"
    /\ out = <<>>
    /\ store = NoStore
    /\ vault = <<>>
    /\ calls = <<>>

\* getAllIDsFromMetadata over the outline the host holds for the note: the
\* result, and the outline as getDeclarationFromFrontmatter leaves it.
EnumerateOutline ==
    /\ op \in {"none", "enumerated", "resolved"}
    /\ op' = IF op = "enumerated" THEN "enumerated again" ELSE "enumerated"
    /\ out' = [given |-> IF op = "none" THEN doc ELSE out.given,
               first |-> IF op = "enumerated" THEN out.first
                         ELSE getAllIDsFromMetadata(NoteA, doc),
               second |-> getAllIDsFromMetadata(NoteA, doc)]
    /\ doc' = IF hasFrontmatter(doc)
              THEN [doc EXCEPT ![1].obj = AfterConformsToDeclarable(@)]
              ELSE doc
    /\ UNCHANGED <<hasCache, vault, calls, store>>

\* getContentFromFile over the same outline: resolution reads the headings and
\* the sections, never the frontmatter.
ResolveOutline ==
    /\ op = "none"
    /\ op' = "resolved"
    /\ out' = [given |-> doc,
               first |-> getContentFromFile(NoteA, File(NoteA, doc, hasCache),
                             EmptyParseResult, NoPredicate, DefaultOptions),
               second |-> <<>>]
    /\ UNCHANGED <<doc, hasCache, vault, calls, store>>

OutlineNext == EnumerateOutline \/ ResolveOutline

SpecOutline == OutlineInit /\ [][OutlineNext]_vars

\* C21: enumerating identifiers or resolving a card leaves the outline (its
\* headings, sections and frontmatter data) as it was given, and a second
\* enumeration over the same outline returns what the first returned.
C21_OutlineUnchanged ==
    /\ op # "none" => doc = out.given
    /\ op = "enumerated again" => out.second = out.first

\* ------------------------------------------------- two calls, two cards

\* Notes declaring sides of the Unique cards x and y.
PairDocs ==
    {<<CardFront>>, <<CardBack>>, <<Card(Str("front"), Str("y"))>>,
     <<Card(Str("back"), Str("y"))>>}

\* getCard for card x and, over the same vault, getCard for card y or
\* getAllCards; the two may run one after the other or overlap at their awaits.
PairInit ==
    /\ doc = <<>>
    /\ hasCache = TRUE
    /\ op = "none"
    /\ out = <<>>
    /\ store = NoStore
    /\ vault \in VaultsOver(PairDocs, TRUE)
    /\ \E n \in {PathOf(1), PathOf(2)},
          other \in {NewCall("getCard", FullID_create(PathOf(1), "y", TRUE), {}),
                     NewCall("getAllCards", NoID, {})} :
          calls = <<NewCall("getCard", FullID_create(n, "x", TRUE), {}), other>>

SpecPair == PairInit /\ [][ResolveNext]_vars

RECURSIVE ScanAlone(_, _, _)
\* getCard run with no other call about: the files scanned in order from the
\* k-th on, each one processed before the next is read.
ScanAlone(call, k, parseResult) ==
    LET After(got) ==
            IF got.thrown # "" THEN [thrown |-> got.thrown, result |-> notFound]
            ELSE IF shouldBreak(got.result, call.id.cardID)
            THEN [thrown |-> "", result |-> getCardResult(got.result, call.id.cardID)]
            ELSE ScanAlone(call, k + 1, got.result)
    IN IF k > Len(call.files)
       THEN [thrown |-> "", result |-> getCardResult(parseResult, call.id.cardID)]
       ELSE After(getContentFromFile(call.files[k], FileAt(vault, call.files[k]),
                      parseResult, PredicateFor(call.id), DefaultOptions))

\* C22: two getCard calls for different cards, interleaved at their document
\* reads in any order, each return (or throw) what the call returns when run
\* alone over the same vault.
C22_ConcurrentCallsAsAlone ==
    \A c \in DOMAIN calls :
        LET Same(call, alone) ==
                /\ call.pc = "done" => alone.thrown = "" /\ call.result = alone.result
                /\ call.pc = "thrown" => alone.thrown = call.thrown
        IN calls[c].kind = "getCard" /\ calls[c].pc \in {"done", "thrown"} =>
              Same(calls[c], ScanAlone(calls[c], 1, EmptyParseResult))

\* The call for x has returned a complete card read from two files while the
\* call for y, which has found one side so far, is awaiting its next read.
C22_Witness ==
    /\ Len(calls) = 2
    /\ calls[2].kind = "getCard" /\ calls[1].id.cardID # calls[2].id.cardID
    /\ calls[1].pc = "done" /\ IsComplete(calls[1].result) /\ calls[1].processed >= 2
    /\ calls[2].pc = "reading" /\ calls[2].processed >= 1
    /\ ~calls[2].parseResult["y"].isNull

\* ------------------------------------------------------- one fenced block

\* Fenced blocks that are, or fail to be, card declarations.
CardBlocks ==
    {Code(lang, yaml, [NoObj EXCEPT !.side = side, !.id = id, !.deck = deck]) :
        lang \in {"ct", "js"}, yaml \in {"ok", "bad", "empty", "scalar"},
        side \in {Absent, Str("front"), Str("Back"), Str(" f"), Str("left"), Num(1)},
        id \in {Absent, Null, Str("x"), Str("X"), Num(7)},
        deck \in {Absent, Null, Str("d"), Str("D"), Str("")}}

\* Fenced blocks that are, or fail to be, commands.
CommandBlocksOver ==
    {Code("ct", "ok", [NoObj EXCEPT !.name = name, !.level = level,
                                    !.delimiter = delimiter]) :
        name \in {Num(3), Str("ah"), Str("hd"), Str("hf"), Str("table"), Str("nope")},
        level \in {Absent, Null, Num(0), Num(1), Num(2), Str("x")},
        delimiter \in {Absent, Str("hr"), Str("heading")}}

\* A heading, the block under it, and a heading and a thematic break after it.
BlockInit ==
    /\ \E block \in CardBlocks \cup CommandBlocksOver :
          doc = Named(<<Heading(1, "", ""), block, Heading(2, "", ""), Hr>>)
    /\ hasCache = TRUE
    /\ op = "none"
    /\ out = <<>>
    /\ store = NoStore
    /\ vault = <<>>
    /\ calls = <<>>

\* CardDeclarationAssistant.parseCodeBlock on the block.
ParseCodeBlock ==
    /\ op = "none"
    /\ op' = "block"
    /\ out' = parseCodeBlock(doc[2])
    /\ UNCHANGED <<doc, hasCache, vault, calls, store>>

\* CommandDeclarationAssistant.createParser on the block, and what the parser
\* it returns generates over the block's section.
CreateParser ==
    /\ op = "none"
    /\ op' = "parser"
    /\ out' = [created |-> createParser(doc[2]),
               auto |-> getAutoDeclarationsFromSection(Sections(doc)[2], doc)]
    /\ UNCHANGED <<doc, hasCache, vault, calls, store>>

\* JavaScript truthiness of a YAML value: `if (deckID)`.
Truthy(v) ==
    CASE v.t = "str" -> v.s # ""
      [] v.t = "num" -> v.n # 0
      [] OTHER -> FALSE

\* toUserFriendlyKeys that writes the deck key whatever the deckID is.
toUserFriendlyKeysAlways(obj) ==
    [side |-> obj.side, id |-> obj.id, name |-> obj.name, level |-> obj.level,
     delimiter |-> obj.delimiter, deck |-> obj.deckID, deckID |-> Absent]

\* Declaration.toUserFriendlyKeys: the mapping after the call, deckID removed
\* and deck set when the deckID is truthy.
toUserFriendlyKeys(obj) ==
    [side |-> obj.side, id |-> obj.id, name |-> obj.name, level |-> obj.level,
     delimiter |-> obj.delimiter,
     deck |-> IF Truthy(obj.deckID) THEN obj.deckID ELSE Absent,
     deckID |-> Absent]

\* Declaration.toString: the mapping the YAML text it returns denotes.
Declaration_toString(obj) == toUserFriendlyKeys(obj)

\* Declaration.tryParseYaml on the block's body, then Declaration.toString on
\* the mapping it returned.
Serialize ==
    /\ op = "none"
    /\ contentOfCodeBlock(doc[2])
    /\ tryParseYaml(doc[2]).isObject
    /\ op' = "yaml"
    /\ out' = [parsed |-> tryParseYaml(doc[2]).obj,
               text |-> Declaration_toString(tryParseYaml(doc[2]).obj)]
    /\ UNCHANGED <<doc, hasCache, vault, calls, store>>

BlockNext == ParseCodeBlock \/ CreateParser \/ Serialize

SpecBlock == BlockInit /\ [][BlockNext]_vars

\* The block is a supported fence whose YAML text denotes a mapping.
IsMapping(block) == contentOfCodeBlock(block) /\ block.yaml = "ok"
\* The side is one of f, front, b, back after trim and lower-casing.
HasValidSide(block) == isString(block.obj.side) /\ isSideValid(block.obj.side.s)

\* C23: parseCodeBlock returns a card declaration only for a block whose side
\* is one of f, front, b, back after trim and lower-casing and whose id is
\* present; a block with such a side and no id returns null and is reported
\* through the incomplete callback; every other block returns null and the
\* callback is not invoked.
C23_ParseCodeBlock ==
    op = "block" =>
        /\ out.thrown = ""
        /\ out.found => IsMapping(doc[2]) /\ HasValidSide(doc[2])
                        /\ doc[2].obj.id.t # "absent"
        /\ (IsMapping(doc[2]) /\ HasValidSide(doc[2]) /\ doc[2].obj.id.t = "absent")
           => ~out.found /\ out.incomplete
        /\ (~out.found /\ ~(IsMapping(doc[2]) /\ HasValidSide(doc[2])
                            /\ doc[2].obj.id.t = "absent"))
           => ~out.incomplete

\* The block is a command declaration: a mapping with a name.
IsCommandBlock(block) == IsMapping(block) /\ isString(block.obj.name)
HasRecognizedName(block) ==
    IsCommandBlock(block)
    /\ ToLowerCase(block.obj.name.s) \in AlternateHeadingsCommandNames
            \cup HeadingAndDelimiterCommandNames \cup HeadingIsFrontCommandNames
\* The delimiter kind is one the command knows, or the command has none.
HasKnownDelimiter(block) ==
    ToLowerCase(block.obj.name.s) \in HeadingAndDelimiterCommandNames =>
        \/ block.obj.delimiter.t = "absent"
        \/ isString(block.obj.delimiter)
           /\ ToLowerCase(block.obj.delimiter.s) \in {"hr", "horizontal rule"}

\* C24: a command with a recognized name reaches its strategy with level 1
\* when no level is given, and with the given level when it is a number of at
\* least 1; any other command (level below 1, level not a number, unknown
\* delimiter kind, unknown name) is rejected, reported through onInvalidType,
\* and generates no declaration; no strategy runs with a level below 1.
C24_CommandLevel ==
    (op = "parser" /\ IsCommandBlock(doc[2])) =>
        LET block == doc[2]
            level == block.obj.level
            accepted == /\ HasRecognizedName(block) /\ HasKnownDelimiter(block)
                        /\ \/ level.t \in {"absent", "null"}
                           \/ isNumber(level) /\ level.n >= 1
        IN /\ accepted =>
                 /\ out.created.found /\ ~out.created.invalid
                 /\ out.created.parser.level = IF isNumber(level) THEN level.n ELSE 1
           /\ ~accepted =>
                 /\ ~out.created.found /\ out.created.invalid
                 /\ out.auto.invalid /\ out.auto.generated = <<>>
           /\ out.created.found => out.created.parser.level >= 1

\* C25: serialize(parse(s)) has the id, the side and the deck of s; it has a
\* deck key exactly when s has one, and never a deckID key.
C25_RoundTripPreserves ==
    op = "yaml" =>
        /\ out.text.id = doc[2].obj.id
        /\ out.text.side = doc[2].obj.side
        /\ out.text.deck = doc[2].obj.deck
        /\ out.text.deckID.t = "absent"

\* C25, as the program does it: serialize(parse(s)) has the id, the side and
\* the deck of s in lower case; it has a deck key exactly when the deck of s
\* is a non-empty value, and never a deckID key.
C25_RoundTripLowerCased ==
    op = "yaml" =>
        /\ out.text.id = LowerVal(doc[2].obj.id)
        /\ out.text.side = LowerVal(doc[2].obj.side)
        /\ out.text.deck.t # "absent" <=> Truthy(doc[2].obj.deck)
        /\ Truthy(doc[2].obj.deck) => out.text.deck = LowerVal(doc[2].obj.deck)
        /\ out.parsed.deckID.t = "absent" => out.text.deck.t = "absent"
        /\ out.text.deckID.t = "absent"

\* A block with an upper-case id and an upper-case deck went through parse
\* and serialize.
C25_Witness ==
    /\ op = "yaml"
    /\ doc[2].obj.id = Str("X") /\ doc[2].obj.deck = Str("D")
    /\ out.parsed.deckID = Str("d") /\ out.text.deck = Str("d")

\* ---------------------------------------------------------------- DataStore

\* createActiveNote(id, false)
createActiveNote(d, noteID) ==
    IF d.active[noteID].has THEN d
    ELSE [d EXCEPT !.active[noteID] = [has |-> TRUE, cs |-> NoCards], !.dirty = TRUE]

\* deleteActiveNote(noteID)
deleteActiveNote(d, noteID) ==
    IF d.active[noteID].has
    THEN [d EXCEPT !.active[noteID] = NoNoteData, !.dirty = TRUE]
    ELSE d

\* deleteActiveCard(id): the card is deleted, and its note with it when the
\* note is left empty.
deleteActiveCard(d, noteID, cardID) ==
    LET Emptied(deleted) ==
            IF deleted.active[noteID].cs = NoCards
            THEN deleteActiveNote(deleted, noteID) ELSE deleted
    IN IF d.active[noteID].has /\ d.active[noteID].cs[cardID] # ""
       THEN Emptied([d EXCEPT !.active[noteID].cs[cardID] = "", !.dirty = TRUE])
       ELSE d

\* moveActiveCardToRemoved(id): deleteActiveCard, ensureRemovedNote, and the
\* card's data stored under the removed note.
moveActiveCardToRemoved(d, noteID, cardID) ==
    IF ~(d.active[noteID].has /\ d.active[noteID].cs[cardID] # "") THEN d
    ELSE [deleteActiveCard(d, noteID, cardID) EXCEPT
             !.removed[noteID] =
                 [has |-> TRUE,
                  cs |-> [d.removed[noteID].cs EXCEPT ![cardID] = d.active[noteID].cs[cardID]]],
             !.dirty = TRUE]

\* moveActiveNoteToRemoved(noteID)
moveActiveNoteToRemoved(d, noteID) ==
    IF ~d.active[noteID].has THEN d
    ELSE IF d.removed[noteID].has
    THEN [deleteActiveNote(d, noteID) EXCEPT !.thrown = "Error: Note already removed"]
    ELSE [deleteActiveNote(d, noteID) EXCEPT
             !.removed[noteID] = [has |-> TRUE, cs |-> d.active[noteID].cs],
             !.dirty = TRUE]

\* removeNote(noteID)
removeNote(d, noteID) == moveActiveNoteToRemoved(d, noteID)

\* deleteRemovedCard(id, true): the removed card is deleted, and its removed
\* note with it when the note is left empty.
deleteRemovedCard(d, noteID, cardID) ==
    LET Emptied(deleted) ==
            IF deleted.removed[noteID].cs = NoCards
            THEN [deleted EXCEPT !.removed[noteID] = NoNoteData] ELSE deleted
    IN Emptied([d EXCEPT !.removed[noteID].cs[cardID] = "", !.dirty = TRUE])

\* getAllCards((cardID) => card.id.hasCardID(cardID)): the notes where the
\* card is active.
ActiveNotesOf(d, cardID) ==
    {n \in StoreNotes : d.active[n].has /\ d.active[n].cs[cardID] # ""}

\* getAllRemovedCards(undefined, (cardID) => id.hasCardID(cardID)): the notes
\* under which the card is marked for removal.
RemovedNotesOf(d, cardID) ==
    {n \in StoreNotes : d.removed[n].has /\ d.removed[n].cs[cardID] # ""}

\* addAsActiveCard(card, throwIfExists) of a card of type UNIQUE.
addAsActiveCard(d, noteID, cardID, data, throwIfExists) ==
    IF ActiveNotesOf(d, cardID) # {}
    THEN IF throwIfExists THEN [d EXCEPT !.thrown = "CardAlreadyExistsError"] ELSE d
    ELSE [createActiveNote(d, noteID) EXCEPT !.active[noteID].cs[cardID] = data,
                                             !.dirty = TRUE]

\* ensureActiveCard(id, statisticsFactory, throwIfExists).  The first removed
\* card of that id, if there is one, gives its data; in every reachable state
\* at most one note holds it.
ensureActiveCard(d, noteID, cardID, throwIfExists) ==
    LET Restored(from) ==
            addAsActiveCard(deleteRemovedCard(createActiveNote(d, noteID), from, cardID),
                            noteID, cardID, d.removed[from].cs[cardID], throwIfExists)
    IN IF RemovedNotesOf(d, cardID) # {}
       THEN Restored(CHOOSE n \in RemovedNotesOf(d, cardID) : TRUE)
       ELSE addAsActiveCard(createActiveNote(d, noteID), noteID, cardID, noteID,
                            throwIfExists)

\* changeNoteID(oldID, newID, false)
changeNoteID(d, oldID, newID) ==
    IF d.active[newID].has THEN [d EXCEPT !.thrown = "Error: Cannot overwrite"]
    ELSE IF d.active[oldID].has
    THEN [deleteActiveNote(d, oldID) EXCEPT !.active[newID] = d.active[oldID],
                                            !.dirty = TRUE]
    ELSE d

\* The order Object.entries gives the cards of a note in.
CardOrder == <<"x", "y">>

RECURSIVE RemoveMissing(_, _, _, _)
\* syncData, "find deleted values": the active cards of the note that are not
\* among the latest ids are moved to the removed store.
RemoveMissing(d, noteID, latestSet, k) ==
    IF k > Len(CardOrder) THEN d
    ELSE RemoveMissing(
            IF CardOrder[k] \notin latestSet
            THEN moveActiveCardToRemoved(d, noteID, CardOrder[k]) ELSE d,
            noteID, latestSet, k + 1)

RECURSIVE AddNew(_, _, _, _)
\* syncData, "find new values": the latest ids that were not active in the
\* note are made active, in the order given, until one throws.
AddNew(d, noteID, latestIDs, currentSet) ==
    IF latestIDs = <<>> \/ d.thrown # "" THEN d
    ELSE AddNew(
            IF Head(latestIDs) \notin currentSet
            THEN ensureActiveCard(d, noteID, Head(latestIDs), TRUE) ELSE d,
            noteID, Tail(latestIDs), currentSet)

\* syncData(latestIDs, inNoteID, statisticsFactory), latestIDs being the
\* front ids of the note.
syncData(d, latestIDs, inNoteID) ==
    AddNew(RemoveMissing(d, inNoteID, {latestIDs[k] : k \in 1..Len(latestIDs)}, 1),
           inNoteID, latestIDs,
           {c \in StoreCards : d.active[inNoteID].has /\ d.active[inNoteID].cs[c] # ""})

\* The front ids a note can declare, in discovery order.
LatestIDs == {<<>>, <<"x">>, <<"y">>, <<"x", "y">>, <<"y", "x">>}

StoreInit ==
    /\ doc = <<>>
    /\ hasCache = TRUE
    /\ op = "none"
    /\ out = <<>>
    /\ store = NoStore
    /\ vault = <<>>
    /\ calls = <<>>

\* syncData for a note and the ids it declares now.
SyncData ==
    \E noteID \in StoreNotes, latestIDs \in LatestIDs :
        /\ op' = "syncData"
        /\ out' = [before |-> store, noteID |-> noteID, latestIDs |-> latestIDs,
                   newID |-> ""]
        /\ store' = syncData([store EXCEPT !.thrown = ""], latestIDs, noteID)
        /\ UNCHANGED <<doc, hasCache, vault, calls>>

\* removeNote for a note.
RemoveNote ==
    \E noteID \in StoreNotes :
        /\ op' = "removeNote"
        /\ out' = [before |-> store, noteID |-> noteID, latestIDs |-> <<>>, newID |-> ""]
        /\ store' = removeNote([store EXCEPT !.thrown = ""], noteID)
        /\ UNCHANGED <<doc, hasCache, vault, calls>>

\* changeNoteID for a renamed note.
ChangeNoteID ==
    \E oldID \in StoreNotes, newID \in StoreNotes :
        /\ oldID # newID
        /\ op' = "changeNoteID"
        /\ out' = [before |-> store, noteID |-> oldID, latestIDs |-> <<>>, newID |-> newID]
        /\ store' = changeNoteID([store EXCEPT !.thrown = ""], oldID, newID)
        /\ UNCHANGED <<doc, hasCache, vault, calls>>

StoreNext == SyncData \/ RemoveNote \/ ChangeNoteID

SpecStore == StoreInit /\ [][StoreNext]_vars

\* The cards of a note of a store.
CardsOf(notes, noteID) == {c \in StoreCards : notes[noteID].has /\ notes[noteID].cs[c] # ""}

\* C26: in every store state reachable through syncData, removeNote and
\* changeNoteID, syncData(latestIDs, note) does not throw
\* CardAlreadyExistsError: every latest id that was not an active card of the
\* note is an active card of it afterwards, and every active card of the note
\* that is absent from latestIDs is in the removed store afterwards.
C26_SyncDataDoesNotThrow ==
    op = "syncData" =>
        LET latestSet == {out.latestIDs[k] : k \in 1..Len(out.latestIDs)}
        IN /\ store.thrown # "CardAlreadyExistsError"
           /\ \A c \in latestSet \ CardsOf(out.before.active, out.noteID) :
                c \in CardsOf(store.active, out.noteID)
           /\ \A c \in CardsOf(out.before.active, out.noteID) \ latestSet :
                /\ c \notin CardsOf(store.active, out.noteID)
                /\ RemovedNotesOf(store, c) # {}

\* Where the statistics of a card are kept, in the active or the removed store.
StatisticsOf(d, cardID) ==
    {d.active[n].cs[cardID] : n \in ActiveNotesOf(d, cardID)}
        \cup {d.removed[n].cs[cardID] : n \in RemovedNotesOf(d, cardID)}

\* C27: after removeNote(n), whether it returns or throws, each card that was
\* active in note n beforehand is still in the active or the removed store
\* with its statistics, and on normal return none of them is active.
C27_RemovalKeepsStatistics ==
    op = "removeNote" =>
        \A c \in CardsOf(out.before.active, out.noteID) :
            /\ out.before.active[out.noteID].cs[c] \in StatisticsOf(store, c)
            /\ store.thrown = "" => ActiveNotesOf(store, c) = {}

\* ------------------------------------------------- saving after file events

\* save(): with the dirty flag set, saveData(this.data) is called and awaited.
save(d) == IF d.dirty THEN [d EXCEPT !.saving = Append(@, "called")] ELSE d

\* "file-open" and "changed": syncIDs(ids, file).  syncData and the call of
\* save run without a break; an error of syncData is caught and the save is
\* skipped.  No more than two saves are kept awaiting.
OnChanged ==
    \E noteID \in StoreNotes, latestIDs \in LatestIDs :
        LET Saved(d) == IF d.thrown = "" THEN save(d) ELSE d
        IN /\ Len(store.saving) < 2
           /\ op' = "changed"
           /\ out' = <<>>
           /\ store' = Saved(syncData([store EXCEPT !.thrown = ""], latestIDs, noteID))
           /\ UNCHANGED <<doc, hasCache, vault, calls>>

\* "delete": removeNote(file.path), and save() when it returned true.
OnDelete ==
    \E noteID \in StoreNotes :
        LET Saved(d) == IF d.thrown = "" /\ store.active[noteID].has THEN save(d) ELSE d
        IN /\ Len(store.saving) < 2
           /\ op' = "delete"
           /\ out' = <<>>
           /\ store' = Saved(removeNote([store EXCEPT !.thrown = ""], noteID))
           /\ UNCHANGED <<doc, hasCache, vault, calls>>

\* "rename": changeNoteID(oldPath, file.path, false), and save() when it
\* returned true.
OnRename ==
    \E oldID \in StoreNotes, newID \in StoreNotes :
        LET Saved(d) == IF d.thrown = "" /\ store.active[oldID].has THEN save(d) ELSE d
        IN /\ oldID # newID
           /\ Len(store.saving) < 2
           /\ op' = "rename"
           /\ out' = <<>>
           /\ store' = Saved(changeNoteID([store EXCEPT !.thrown = ""], oldID, newID))
           /\ UNCHANGED <<doc, hasCache, vault, calls>>

\* The host serialises the object saveData was given, at some moment between
\* the call and the completion of the write; writes are served in call order.
HostWrite ==
    \E k \in 1..Len(store.saving) :
        /\ store.saving[k] = "called"
        /\ \A j \in 1..(k - 1) : store.saving[j] = "written"
        /\ op' = "write"
        /\ out' = <<>>
        /\ store' = [store EXCEPT !.saving[k] = "written",
                                  !.written = [active |-> store.active,
                                               removed |-> store.removed]]
        /\ UNCHANGED <<doc, hasCache, vault, calls>>

\* The awaited saveData resolves and save() goes on: _isDataDirty = false.
SaveDone ==
    /\ store.saving # <<>>
    /\ Head(store.saving) = "written"
    /\ op' = "saved"
    /\ out' = <<>>
    /\ store' = [store EXCEPT !.saving = Tail(@), !.dirty = FALSE]
    /\ UNCHANGED <<doc, hasCache, vault, calls>>

SaveNext == OnChanged \/ OnDelete \/ OnRename \/ HostWrite \/ SaveDone

SpecSave == StoreInit /\ [][SaveNext]_vars

\* C28: whenever the dirty flag is clear, the last data written by saveData
\* equals the in-memory data, also when a file event handler changed the
\* store while an earlier save() was awaiting its write.
C28_CleanMeansWritten ==
    ~store.dirty => store.written = [active |-> store.active, removed |-> store.removed]

\* ------------------------------------------- HeadingAndDelimiter, any order

\* C29: for any sequence of headings and thematic breaks HeadingAndDelimiter
\* visits, the declarations it generates strictly alternate front, back; a
\* front is generated only from a heading at the designated level, a back
\* only from a thematic break, and every back immediately follows a front
\* with the same id.
C29_StrictlyAlternate ==
    (op = "auto" /\ out.index = 2 /\ doc[1].kind = "heading" /\ IsCommand(doc, 2, "hd")) =>
        \A k \in 1..Len(out.auto.generated) :
            LET g == out.auto.generated[k]
            IN /\ g.declaration.side = (IF k % 2 = 1 THEN "front" ELSE "back")
               /\ g.declaration.side = "front" =>
                    /\ isHeadingCache(g.range.start)
                    /\ g.range.start.level
                         = doc[1].level + createParser(doc[2]).parser.level
               /\ g.declaration.side = "back" =>
                    /\ isSectionType(g.range.start, SECTION_TYPE_THEMATICBREAK)
                    /\ out.auto.generated[k - 1].declaration.side = "front"
                    /\ out.auto.generated[k - 1].declaration.id = g.declaration.id

\* ------------------------------------------- enumeration against resolution

\* C30: enumeration and resolution agree on every document: each identifier
\* getAllIDsFromMetadata reports, from the frontmatter, a heading marker, an
\* explicit block or a command, is the identifier of a side that
\* findAllContentInfosInFile finds over the same text and outline, and
\* resolution finds no side whose identifier enumeration does not report.
C30_EnumerationAgreesWithResolution ==
    op = "enumerated" =>
        LET Agree(found) ==
                (out.first.thrown = "" /\ found.thrown = "") =>
                    {FullID_toString(out.first.ids[k]) : k \in 1..Len(out.first.ids)}
                        = {FullID_toString(found.infos[k].id) : k \in 1..Len(found.infos)}
        IN Agree(findAllContentInfosInFile(NoteA, out.given))

====
